---- MODULE Spec2Model ----
(***************************************************************************)
(* State-machine model of the Bizzal daily content pipeline:               *)
(*   - bin/upload/upload_youtube.py   (publish registry guard)             *)
(*   - bin/core/discord_publish_gate.py (approval state machine)           *)
(*   - bin/core/make_atom.py and the stages it launches                    *)
(*   - bin/core/write_script_from_fact.py (content identity)               *)
(* sha256 is modelled as an injective constructor: the digest of a value   *)
(* is the value itself wrapped in a tuple or record; a truncated digest    *)
(* ([:12], [:10]) is modelled the same way.                                *)
(***************************************************************************)
EXTENDS Integers, Sequences, FiniteSets, TLC

VARIABLES
    validated,   \* data/atoms/validated/<day>.json : day -> atom file
    registry,    \* published_registry.json "items" (absent file = <<>>)
    uploads,     \* every upload_video call that returned a response
    last,        \* the invocation that made the last step (observation)
    approvals,   \* discord_publish_gate.json "approvals" : day -> record
    channel,     \* the Discord channel's messages, newest first
    incoming,    \* data/atoms/incoming/<day>.json : day -> atom file
    failed,      \* data/atoms/failed/<day>.json : day -> atom file
    srd,         \* the active SRD dataset files
    history,     \* runtime/state/style_history.json : day -> category -> entry
    made,        \* every make_atom run: its inputs and what it produced
    contracts,   \* every build_content_contract call: inputs and result
    ai,          \* a maybe_ai_polish_script call: inputs and result
    disk,        \* a directory with a file and its ".tmp": names and inodes
    writers,     \* the invocations that write the file: position in helper
    observed,    \* what a reader of the file has read
    draws,       \* legacy picker runs over a dataset file: inputs and result
    styles,      \* a pick_style run: its inputs and what it chose
    scripts,     \* a write_script_from_fact run: inputs and the atom written
    uploaders    \* concurrent upload_youtube invocations: position and locals

vars == <<validated, registry, uploads, last, approvals, channel,
          incoming, failed, srd, history, made, contracts,
          ai, disk, writers, observed, draws, styles, scripts, uploaders>>

\* The variables of the single-function specifications.
laterVars == <<styles, scripts, uploaders>>
sideVars == <<ai, disk, writers, observed, draws, laterVars>>

atomVars == <<incoming, failed, srd, history, made, contracts, sideVars>>

----------------------------------------------------------------------------
(* Bounds of the model.                                                    *)

MaxUploads == 3
MaxChannel == 2
MaxRuns == 2

----------------------------------------------------------------------------
(* Shared value sets.                                                      *)

DaySeq == <<"2024-01-01", "2024-01-02">>
Days == {DaySeq[i] : i \in 1..Len(DaySeq)}

\* --video argument: the rendered file (path and bytes); "" = no such file.
Videos == {"v1.mp4", "v2.mp4"}
NoVideo == ""

\* What upload_youtube reads of a validated atom: content.content_id and the
\* rest of the fingerprint fields (script text, fact, category: script_id).
NoAtom == [present |-> FALSE, content_id |-> "", script_id |-> ""]
UAtoms ==
    { [present |-> TRUE, content_id |-> "",        script_id |-> "s1"],
      [present |-> TRUE, content_id |-> "bgp-c1",  script_id |-> "s1"],
      [present |-> TRUE, content_id |-> "bgp-c2",  script_id |-> "s2"] }

\* What the upload API call can do: raise, answer without "id", answer with one.
UploadOutcomes == {"error", "noid", "ok"}

\* Fields of last: op (the command), the day / video / flag argument (the
\* duplicate override of an upload, --force of a request, --publish of a
\* check), io (what the upload API, the request webhook or the channel read
\* did), users (the approver allow-list of a check), rc (exit code), called
\* (the upload API was called, the request webhook was posted to, a check
\* posted a notification), notify (what the notification posts of a check
\* did: "" when it made none).
Idle == [op |-> "init", day |-> "", video |-> "", flag |-> FALSE,
         io |-> "", users |-> {}, rc |-> 0, called |-> FALSE, notify |-> ""]

\* An approval record of the gate's state file; NoApproval = no entry.
NoApproval == [present |-> FALSE, content_id |-> "", status |-> "",
               decision_by |-> "", publish_rc |-> -1]

----------------------------------------------------------------------------
(* Values of the atom pipeline.  A string that the code takes apart        *)
(* (slugify, slices, concatenation) is a sequence of characters.           *)

monster_tactic ==
    <<"m","o","n","s","t","e","r","_","t","a","c","t","i","c">>
spell_use_case ==
    <<"s","p","e","l","l","_","u","s","e","_","c","a","s","e">>
Categories == {monster_tactic, spell_use_case}

\* make_atom.py line 267: the angle written when the topic spine gives none.
how_it_wins == <<"h","o","w","_","i","t","_","w","i","n","s">>

\* config/style_rules.yaml as installed: voices and tones of a category.
Voices == << <<"v","e","t">>, <<"g","r","i","m">> >>
Tones == << <<"d","r","y">>, <<"w","r","y">> >>
Angles == {how_it_wins}

\* The digest of nothing (script_id: None).
NoHash == [sha256 |-> <<>>]

NoPicks == [creature_pk |-> 0, spell_pk |-> 0]
NoFact == [kind |-> <<>>, pk |-> 0, name |-> <<>>, document |-> <<>>]
NoStyle == [voice |-> <<>>, tone |-> <<>>]
NoScript == [hook |-> <<>>, body |-> <<>>, cta |-> <<>>]
NoContent ==
    [present |-> FALSE, content_id |-> [base |-> <<>>, short |-> NoHash],
     episode_id |-> [base |-> <<>>, short |-> NoHash],
     month_id |-> <<>>, month_bundle_id |-> NoHash,
     canonical_hash |-> NoHash, script_id |-> NoHash,
     asset_contract |-> <<>>, segments |-> <<>>, tags |-> {}]

\* make_atom.py new_atom (lines 138-152), with the keys main adds at lines
\* 271-274; a pk of 0 stands for None.  missing is the set of top-level keys
\* the JSON object lacks (none in an atom the pipeline wrote); errors is the
\* "errors" list, empty when the key is absent.
new_atom(day_str, now) ==
    [present |-> TRUE, day |-> day_str, created_at |-> now,
     category |-> <<>>, angle |-> <<>>, style |-> NoStyle,
     picks |-> NoPicks, fact |-> NoFact, script |-> NoScript,
     script_id |-> NoHash, content |-> NoContent,
     missing |-> {}, errors |-> <<>>]

\* No file at the path.
NoFile == [new_atom("", 0) EXCEPT !.present = FALSE]

\* The active SRD dataset as installed: Django fixtures, a list of records.
Creatures == << [pk |-> 7, name |-> <<"G","o","b">>],
                [pk |-> 9, name |-> <<"O","r","c">>] >>
Spells == << [pk |-> 3, name |-> <<"B","a","n","e">>],
             [pk |-> 5, name |-> <<"M","i","s","t">>] >>
Dataset == [creature |-> [is_list |-> TRUE, records |-> Creatures],
            spell    |-> [is_list |-> TRUE, records |-> Spells]]

\* A dataset file that holds one JSON object (an atom) instead of a list.
ObjectFile == [is_list |-> FALSE, records |-> <<>>]

NoHistory == [present |-> FALSE, angle |-> <<>>, voice |-> <<>>,
              tone |-> <<>>]

\* The pipeline's files before any run.
FilesIdle ==
    /\ incoming = [d \in Days |-> NoFile]
    /\ failed = [d \in Days |-> NoFile]
    /\ srd = Dataset
    /\ history = [d \in Days |-> [c \in Categories |-> NoHistory]]
    /\ made = <<>>

\* No call of a single function is under way.
LaterIdle ==
    /\ styles = <<>>
    /\ scripts = <<>>
    /\ uploaders = <<>>

SideIdle ==
    /\ LaterIdle
    /\ ai = <<>>
    /\ disk = <<>>
    /\ writers = <<>>
    /\ observed = <<>>
    /\ draws = <<>>

AtomIdle ==
    /\ FilesIdle
    /\ contracts = <<>>
    /\ SideIdle

----------------------------------------------------------------------------
(* upload_youtube.py                                                       *)

\* load_atom: the validated atom of the day, or the FileNotFoundError.
load_atom(files, day) == files[day]

\* build_publish_fingerprint: the fingerprint's hash (sha256 of the sorted
\* JSON of day, atom fields, video path and video sha256).
build_publish_fingerprint(atom, day, video) ==
    [day |-> day, content_id |-> atom.content_id,
     script_id |-> atom.script_id, video |-> video]

\* duplicate_publish with the content_id comparison left out.
duplicate_publish_hash_only(items, publish_hash, content_id) ==
    LET hits == {i \in 1..Len(items) : items[i].publish_hash = publish_hash}
    IN  IF hits = {} THEN 0 ELSE CHOOSE i \in hits : \A j \in hits : i <= j

\* duplicate_publish: index of the first registry item with the same
\* publish_hash, or with the same non-empty content_id; 0 for None.
duplicate_publish(items, publish_hash, content_id) ==
    LET hits == {i \in 1..Len(items) :
                    \/ items[i].publish_hash = publish_hash
                    \/ (content_id # "" /\ items[i].content_id = content_id)}
    IN  IF hits = {} THEN 0 ELSE CHOOSE i \in hits : \A j \in hits : i <= j

\* The registry written with only the new record.
registry_overwrite(items, rec) == <<rec>>

\* registry["items"].append(...) followed by save_registry.
registry_append(items, rec) == Append(items, rec)

\* main: one invocation, as a function of the files it reads and of what the
\* upload API does.  Result: exit code, registry file and upload log after.
upload_main(files, items, ups, day, video, allow_duplicate, outcome) ==
    LET atom         == load_atom(files, day)
        publish_hash == build_publish_fingerprint(atom, day, video)
        content_id   == atom.content_id
        prior        == duplicate_publish(items, publish_hash, content_id)
        vid          == IF outcome = "ok" THEN Len(ups) + 1 ELSE 0
        same         == [rc |-> 0, registry |-> items, uploads |-> ups,
                         called |-> FALSE]
    IN  IF video = NoVideo THEN [same EXCEPT !.rc = 2]
        ELSE IF ~atom.present THEN [same EXCEPT !.rc = 3]
        ELSE IF prior # 0 /\ ~allow_duplicate THEN [same EXCEPT !.rc = 6]
        ELSE IF outcome = "error" THEN [same EXCEPT !.rc = 4, !.called = TRUE]
        ELSE LET done == Append(ups, [day |-> day, content_id |-> content_id,
                                      allow_duplicate |-> allow_duplicate,
                                      youtube_video_id |-> vid])
             IN  IF vid = 0
                 THEN [rc |-> 5, registry |-> items, uploads |-> done,
                       called |-> TRUE]
                 ELSE [rc |-> 0,
                       registry |-> registry_append(items,
                           [day |-> day, content_id |-> content_id,
                            publish_hash |-> publish_hash,
                            youtube_video_id |-> vid]),
                       uploads |-> done, called |-> TRUE]

\* One run of bin/upload/upload_youtube.py.
Upload(day, video, allow_duplicate, outcome) ==
    /\ Len(uploads) < MaxUploads
    /\ LET r == upload_main(validated, registry, uploads, day, video,
                            allow_duplicate, outcome)
       IN  /\ registry' = r.registry
           /\ uploads' = r.uploads
           /\ last' = [op |-> "upload", day |-> day, video |-> video,
                       flag |-> allow_duplicate, io |-> outcome,
                       users |-> {}, rc |-> r.rc, called |-> r.called,
                       notify |-> ""]
    /\ UNCHANGED <<validated, approvals, channel>>
    /\ UNCHANGED atomVars

InitUpload ==
    /\ validated \in [Days -> UAtoms \cup {NoAtom}]
    /\ registry = <<>>
    /\ uploads = <<>>
    /\ last = Idle
    /\ approvals = [d \in Days |-> NoApproval]
    /\ channel = <<>>
    /\ AtomIdle

NextUpload ==
    \E day \in Days, video \in Videos \cup {NoVideo},
       allow_duplicate \in BOOLEAN, outcome \in UploadOutcomes :
        Upload(day, video, allow_duplicate, outcome)

SpecUpload == InitUpload /\ [][NextUpload]_vars

----------------------------------------------------------------------------
(* Claims about the uploader.                                              *)

\* The registry holds a record for this fingerprint hash or content_id
\* (stated on the registry itself, not through duplicate_publish).
RegistryHolds(items, publish_hash, content_id) ==
    \E i \in 1..Len(items) :
        \/ items[i].publish_hash = publish_hash
        \/ (content_id # "" /\ items[i].content_id = content_id)

\* C1: under default configuration (no run with the duplicate override), at
\* most one upload is performed for any non-empty content_id, over any
\* sequence of runs that succeed or fail at any step.
C1_AtMostOneUploadPerContentId ==
    \A i, j \in 1..Len(uploads) :
        ( /\ i < j
          /\ uploads[i].content_id # ""
          /\ uploads[i].content_id = uploads[j].content_id )
        => (uploads[i].allow_duplicate \/ uploads[j].allow_duplicate)

\* C2: a run without the override that finds the registry holding the
\* computed publish_hash, or the atom's non-empty content_id, exits 6, does
\* not call the upload API and leaves the registry unchanged.
C2_DuplicateBlocked ==
    [][ ( /\ last'.op = "upload"
          /\ ~last'.flag
          /\ last'.video # NoVideo
          /\ validated[last'.day].present
          /\ RegistryHolds(registry,
                 build_publish_fingerprint(validated[last'.day], last'.day,
                                           last'.video),
                 validated[last'.day].content_id) )
        => ( /\ last'.rc = 6
             /\ ~last'.called
             /\ registry' = registry
             /\ uploads' = uploads ) ]_vars

\* C2 witness: a default run was blocked by a record that has the same
\* content_id but another publish_hash (another video).
C2_Witness ==
    /\ last.op = "upload" /\ last.rc = 6 /\ ~last.flag
    /\ \E i \in 1..Len(registry) :
          /\ registry[i].content_id = validated[last.day].content_id
          /\ registry[i].publish_hash #
                build_publish_fingerprint(validated[last.day], last.day,
                                          last.video)

\* C3: the registry is append-only: every step keeps the earlier records in
\* place, a successful upload adds exactly one record at the end, and no
\* other run changes the registry.
C3_AppendOnly ==
    [][ /\ Len(registry') >= Len(registry)
        /\ SubSeq(registry', 1, Len(registry)) = registry
        /\ (last'.op = "upload" /\ last'.rc = 0)
              => ( /\ Len(registry') = Len(registry) + 1
                   /\ registry'[Len(registry')].content_id =
                          validated[last'.day].content_id )
        /\ (last'.op = "upload" /\ last'.rc # 0) => registry' = registry
      ]_vars

\* C3 witness: after an overridden duplicate the prior record and the new one
\* are both in the registry.
C3_Witness ==
    /\ last.op = "upload" /\ last.rc = 0 /\ last.flag
    /\ \E i, j \in 1..Len(registry) :
          /\ i < j
          /\ registry[i].publish_hash = registry[j].publish_hash
          /\ registry[i].youtube_video_id # registry[j].youtube_video_id

----------------------------------------------------------------------------
(* discord_publish_gate.py                                                 *)

Users == {"u1", "u2"}

\* The validated atoms the gate can find for each day (content_id embeds the
\* day, so the days do not share one), as make_atom leaves them.
GateAtoms(day) ==
    IF day = DaySeq[1]
    THEN { [present |-> TRUE, content_id |-> "bgp-c1", script_id |-> "s1"],
           [present |-> TRUE, content_id |-> "bgp-c2", script_id |-> "s2"] }
    ELSE { [present |-> TRUE, content_id |-> "bgp-c3", script_id |-> "s1"] }

\* Channel messages: author id and the whitespace-separated words of the text.
Messages ==
    { [author |-> "u1", words |-> <<"approve", DaySeq[1]>>],
      [author |-> "u2", words |-> <<"Rejected", "BGP-C1">>],
      [author |-> "u2", words |-> <<"approve">>],
      [author |-> "u1", words |-> <<"reject", DaySeq[2]>>],
      [author |-> "u1", words |-> <<"hello", DaySeq[1]>>] }

\* str.lower() on the vocabulary of the model.
lower(w) ==
    CASE w = "Rejected" -> "rejected"
      [] w = "BGP-C1"   -> "bgp-c1"
      [] OTHER          -> w

\* parse_approval_command: (cmd, arg) or None (ok = FALSE).
parse_approval_command(words) ==
    LET none  == [ok |-> FALSE, cmd |-> "", arg |-> ""]
        cmd   == IF Len(words) = 0 THEN "" ELSE lower(words[1])
        alias == CASE cmd \in {"approve", "approved"} -> "approve"
                   [] cmd \in {"reject", "rejected"}  -> "reject"
                   [] OTHER                           -> ""
    IN  IF Len(words) = 0 \/ alias = "" THEN none
        ELSE [ok |-> TRUE, cmd |-> alias,
              arg |-> IF Len(words) >= 2 THEN lower(words[2]) ELSE ""]

\* atom_for_day
atom_for_day(files, day) == files[day]

\* latest_validated_day: the last of the sorted days with a validated atom, or
\* "" for None.
latest_validated_day(files) ==
    LET have == {i \in 1..Len(DaySeq) : files[DaySeq[i]].present}
    IN  IF have = {} THEN ""
        ELSE DaySeq[CHOOSE i \in have : \A j \in have : j <= i]

\* The statuses for which a re-request of the same content_id is a no-op,
\* with "approved" left out.
request_noop_statuses_pending_only == {"pending"}

\* request_mode, line 236: the statuses for which a re-request is a no-op.
request_noop_statuses == {"pending", "approved", "published"}

\* request_mode: one invocation.  webhook: "missing" (no or placeholder URL),
\* "fail" (the post raises), "ok".  Result: exit code, the state file after,
\* whether the webhook post was made.
request_mode(files, appr, requested_day, webhook, force) ==
    LET fallback_day == latest_validated_day(files)
        day      == IF atom_for_day(files, requested_day).present
                    THEN requested_day ELSE fallback_day
        same     == [rc |-> 0, approvals |-> appr, called |-> FALSE]
    IN  IF webhook = "missing" THEN [same EXCEPT !.rc = 2]
        ELSE IF day = "" THEN [same EXCEPT !.rc = 3]
        ELSE LET content_id == atom_for_day(files, day).content_id
                 existing   == appr[day]
             IN  IF content_id = "" THEN [same EXCEPT !.rc = 3]
                 ELSE IF /\ existing.present
                         /\ existing.content_id = content_id
                         /\ existing.status \in request_noop_statuses
                         /\ ~force
                      THEN same
                 ELSE IF webhook = "fail"
                      THEN [same EXCEPT !.rc = 4, !.called = TRUE]
                 ELSE [rc |-> 0, called |-> TRUE,
                       approvals |-> [appr EXCEPT ![day] =
                           [present |-> TRUE, content_id |-> content_id,
                            status |-> "pending", decision_by |-> "",
                            publish_rc |-> -1]]]

\* check_mode, lines 319-323: the message passes the approver filter.
author_allowed(approve_users, uid) ==
    ~(approve_users # {} /\ uid \notin approve_users)

\* check_mode, lines 345-446 with the "if publish:" test left out.
decide_always_publish(entry, cmd, uid, publish, rc, webhook) ==
    IF cmd = "reject"
    THEN [entry EXCEPT !.status = "rejected", !.decision_by = uid]
    ELSE [entry EXCEPT !.status = IF rc = 0 THEN "published"
                                  ELSE "approved_publish_failed",
                       !.decision_by = uid, !.publish_rc = rc]

\* check_mode, lines 345-446 with the "continue" that ends the reject branch
\* left out: a reject falls through to the approve branch.
decide_reject_falls_through(entry, cmd, uid, publish, rc, webhook) ==
    IF publish
    THEN [entry EXCEPT !.status = IF rc = 0 THEN "published"
                                  ELSE "approved_publish_failed",
                       !.decision_by = uid, !.publish_rc = rc]
    ELSE [entry EXCEPT !.status = "approved", !.decision_by = uid]

\* check_mode, lines 345-446: the decision on one pending entry; rc is the
\* exit code of run_publish_command when it is run.  webhook is what the
\* notification posts (rejected, approval accepted, publish started,
\* complete, failed, queued) do: none is made without a URL ("missing"), and
\* each is made inside try / except Exception: pass, so that a post that
\* raises ("fail") and one that succeeds ("ok") leave the same entry.
decide(entry, cmd, uid, publish, rc, webhook) ==
    IF cmd = "reject"
    THEN [entry EXCEPT !.status = "rejected", !.decision_by = uid]
    ELSE IF publish
         THEN [entry EXCEPT !.status = IF rc = 0 THEN "published"
                                       ELSE "approved_publish_failed",
                            !.decision_by = uid, !.publish_rc = rc]
         ELSE [entry EXCEPT !.status = "approved", !.decision_by = uid]

\* The test of lines 337-343 without the test of the entry's status.
applies_any_status(entry, day, arg) ==
    arg # "" => arg \in {lower(day), lower(entry.content_id)}

\* check_mode, lines 337-343: the message applies to this day's entry.
applies(entry, day, arg) ==
    /\ entry.status = "pending"
    /\ (arg # "" => arg \in {lower(day), lower(entry.content_id)})

\* check_mode, lines 319-446: one message, over the target days; appr is
\* the approvals dict, pending_days the list computed at line 303.
process_message(appr, msg, pending_days, approve_users, publish, rcs, webhook) ==
    LET parsed == parse_approval_command(msg.words)
        uid    == msg.author
        skip   == \/ ~author_allowed(approve_users, uid)
                  \/ ~parsed.ok
                  \/ (parsed.arg = "" /\ Cardinality(pending_days) # 1)
    IN  IF skip THEN appr
        ELSE [d \in Days |->
                 IF d \in pending_days /\ applies(appr[d], d, parsed.arg)
                 THEN decide(appr[d], parsed.cmd, uid, publish, rcs[d],
                             webhook)
                 ELSE appr[d]]

RECURSIVE process_messages(_, _, _, _, _, _, _, _)
\* check_mode, line 319: the loop over the messages, in the order read.
process_messages(appr, messages, i, pending_days, approve_users, publish, rcs, webhook) ==
    IF i > Len(messages) THEN appr
    ELSE process_messages(
             process_message(appr, messages[i], pending_days, approve_users,
                             publish, rcs, webhook),
             messages, i + 1, pending_days, approve_users, publish, rcs,
             webhook)

\* discord_get_messages is called with limit=80.
MessageLimit == 80

\* discord_get_messages: the newest messages of the channel, up to the limit.
discord_get_messages(chan, limit) ==
    SubSeq(chan, 1, IF Len(chan) < limit THEN Len(chan) ELSE limit)

\* check_mode with the try/except around the notification posts left out:
\* a post that raises ends the run with exit code 1 before the state file
\* is saved.
check_mode_post_failure_aborts(appr, chan, read, approve_users, publish, rcs, webhook) ==
    LET pending_days == {d \in Days :
                            appr[d].present /\ appr[d].status = "pending"}
        same == [rc |-> 0, approvals |-> appr, called |-> FALSE]
    IN  IF pending_days = {} THEN same
        ELSE IF read = "noconfig" THEN [same EXCEPT !.rc = 2]
        ELSE IF read = "fail" THEN [same EXCEPT !.rc = 3]
        ELSE CHOOSE out \in
               { IF webhook = "fail" /\ after # appr
                 THEN [rc |-> 1, approvals |-> appr, called |-> TRUE]
                 ELSE [rc |-> 0, approvals |-> after,
                       called |-> (webhook # "missing" /\ after # appr)] :
                 after \in { process_messages(appr,
                                discord_get_messages(chan, MessageLimit), 1,
                                pending_days, approve_users, publish, rcs,
                                webhook) } } : TRUE

\* check_mode: one invocation.  read: "noconfig" (no bot token or channel
\* id), "fail" (the channel read raises), "ok".  rcs: the exit code
\* run_publish_command gets for each day, when it is run.  Result: exit code
\* the state file after and whether a notification post was made (every
\* decision posts at least one when the webhook URL is set).
check_mode(appr, chan, read, approve_users, publish, rcs, webhook) ==
    LET pending_days == {d \in Days :
                            appr[d].present /\ appr[d].status = "pending"}
        same == [rc |-> 0, approvals |-> appr, called |-> FALSE]
    IN  IF pending_days = {} THEN same
        ELSE IF read = "noconfig" THEN [same EXCEPT !.rc = 2]
        ELSE IF read = "fail" THEN [same EXCEPT !.rc = 3]
        ELSE CHOOSE out \in
               { [rc |-> 0, approvals |-> after,
                  called |-> (webhook # "missing" /\ after # appr)] :
                 after \in { process_messages(appr,
                                discord_get_messages(chan, MessageLimit), 1,
                                pending_days, approve_users, publish, rcs,
                                webhook) } } : TRUE

\* What the request webhook and the channel read can do.
Webhooks == {"missing", "fail", "ok"}
CheckReads == {"noconfig", "fail", "ok"}

\* Exit codes of the publish command: 0, or a failure (6: duplicate blocked).
PublishRcs == {0, 6}

\* The exit codes a check run can get from the publish command: none is run
\* without --publish.
PublishResults(publish) ==
    IF publish THEN [Days -> PublishRcs] ELSE {[d \in Days |-> 0]}

\* discord_publish_gate.py request [--day D] [--force]
Request(day, webhook, force) ==
    /\ LET r == request_mode(validated, approvals, day, webhook, force)
       IN  /\ approvals' = r.approvals
           /\ last' = [op |-> "request", day |-> day, video |-> "",
                       flag |-> force, io |-> webhook, users |-> {},
                       rc |-> r.rc, called |-> r.called, notify |-> ""]
    /\ UNCHANGED <<validated, registry, uploads, channel>>
    /\ UNCHANGED atomVars

\* discord_publish_gate.py check [--publish], with the allow-list of
\* BIZZAL_DISCORD_APPROVER_USER_IDS and the notification webhook of
\* BIZZAL_DISCORD_WEBHOOK_URL.
Check(read, approve_users, publish, rcs, webhook) ==
    /\ \E r \in { check_mode(approvals, channel, read, approve_users,
                              publish, rcs, webhook) } :
           /\ approvals' = r.approvals
           /\ last' = [op |-> "check", day |-> "", video |-> "",
                       flag |-> publish, io |-> read, users |-> approve_users,
                       rc |-> r.rc, called |-> r.called,
                       notify |-> IF r.called THEN webhook ELSE ""]
    /\ UNCHANGED <<validated, registry, uploads, channel>>
    /\ UNCHANGED atomVars

\* A user posts a message in the approval channel.
Post(msg) ==
    /\ Len(channel) < MaxChannel
    /\ channel' = <<msg>> \o channel
    /\ last' = [Idle EXCEPT !.op = "post"]
    /\ UNCHANGED <<validated, registry, uploads, approvals>>
    /\ UNCHANGED atomVars

\* make_atom leaves a (new) validated atom for the day.
Revalidate(day, atom) ==
    /\ validated[day] # atom
    /\ validated' = [validated EXCEPT ![day] = atom]
    /\ last' = [Idle EXCEPT !.op = "make_atom"]
    /\ UNCHANGED <<registry, uploads, approvals, channel>>
    /\ UNCHANGED atomVars

InitGate ==
    /\ validated = [d \in Days |-> NoAtom]
    /\ registry = <<>>
    /\ uploads = <<>>
    /\ last = Idle
    /\ approvals = [d \in Days |-> NoApproval]
    /\ channel = <<>>
    /\ AtomIdle

NextGate ==
    \/ \E day \in Days, webhook \in Webhooks,
          force \in BOOLEAN : Request(day, webhook, force)
    \/ \E approve_users \in SUBSET Users, publish \in BOOLEAN :
          \E rcs \in PublishResults(publish) :
             Check("ok", approve_users, publish, rcs, "ok")
    \/ \E publish \in BOOLEAN :
          \E rcs \in PublishResults(publish) :
             Check("ok", {}, publish, rcs, "fail")
    \/ \E read \in CheckReads \ {"ok"} :
          Check(read, {}, FALSE, [d \in Days |-> 0], "ok")
    \/ \E msg \in Messages : Post(msg)
    \/ \E day \in Days : \E atom \in GateAtoms(day) : Revalidate(day, atom)

SpecGate == InitGate /\ [][NextGate]_vars

----------------------------------------------------------------------------
(* Claims about the publish gate.                                          *)

\* The status stored for a day ("none": no record).
StatusOf(appr, day) == IF appr[day].present THEN appr[day].status ELSE "none"

\* The message is an approve command that names the day or its content_id,
\* or names nothing (stated on the words, not through the parser).
IsApproveFor(msg, day, entry) ==
    /\ Len(msg.words) >= 1
    /\ lower(msg.words[1]) \in {"approve", "approved"}
    /\ Len(msg.words) >= 2
          => lower(msg.words[2]) \in {day, entry.content_id}

\* C4 as stated: the stored status of a day's record changes only along
\* pending->approved, pending->rejected, approved->published or
\* approved->approved_publish_failed (a record begins as pending; a check
\* --publish run that passes through approved on its way to published or
\* approved_publish_failed counts as following the arrows).
C4_StatusMachineAsStated ==
    [][ \A d \in Days :
          StatusOf(approvals', d) # StatusOf(approvals, d)
          => <<StatusOf(approvals, d), StatusOf(approvals', d)>> \in
                { <<"none", "pending">>,
                  <<"pending", "approved">>,
                  <<"pending", "rejected">>,
                  <<"pending", "published">>,
                  <<"pending", "approved_publish_failed">>,
                  <<"approved", "published">>,
                  <<"approved", "approved_publish_failed">> } ]_vars

\* C4 amended: a check run changes only pending records, to approved or
\* rejected without --publish and to rejected, published or
\* approved_publish_failed with --publish; a request run changes a status
\* only to pending, and does so on an approved or published record only when
\* forced or when the day's content_id has changed; nothing else changes a
\* status.
C4_StatusMachine ==
    [][ \A d \in Days :
          StatusOf(approvals', d) # StatusOf(approvals, d)
          => \/ /\ last'.op = "request"
                /\ StatusOf(approvals', d) = "pending"
                /\ \/ last'.flag
                   \/ approvals'[d].content_id # approvals[d].content_id
                   \/ StatusOf(approvals, d) \in
                        {"none", "rejected", "approved_publish_failed"}
             \/ /\ last'.op = "check"
                /\ StatusOf(approvals, d) = "pending"
                /\ IF last'.flag
                   THEN StatusOf(approvals', d) \in
                          {"rejected", "published", "approved_publish_failed"}
                   ELSE StatusOf(approvals', d) \in {"approved", "rejected"}
      ]_vars

\* C4 witness: a forced request has just written a pending record for its
\* day while another day's record stands at approved_publish_failed after a
\* check --publish.
C4_Witness ==
    /\ last.op = "request" /\ last.flag /\ last.called /\ last.rc = 0
    /\ StatusOf(approvals, last.day) = "pending"
    /\ \E e \in Days : StatusOf(approvals, e) = "approved_publish_failed"

\* The publish command was run for the day in this step: the record gets a
\* publish_rc.
PublishRunFor(d) ==
    /\ approvals'[d] # approvals[d]
    /\ approvals'[d].present
    /\ approvals'[d].publish_rc # -1

\* C5: the publish command is run for a day only in a check --publish run in
\* which the day's record was pending and an approve command for it is among
\* the messages read; never for a rejected record, never without an approve
\* command.
C5_PublishOnlyAfterApprove ==
    [][ \A d \in Days :
          PublishRunFor(d)
          => /\ last'.op = "check" /\ last'.flag
             /\ StatusOf(approvals, d) = "pending"
             /\ StatusOf(approvals', d) \in
                   {"published", "approved_publish_failed"}
             /\ \E i \in 1..Len(channel) :
                   IsApproveFor(channel[i], d, approvals[d]) ]_vars

\* C5 witness: the publish command has run for a day and failed.
C5_Witness ==
    /\ last.op = "check"
    /\ \E d \in Days : /\ approvals[d].present
                       /\ approvals[d].publish_rc = 6
                       /\ approvals[d].status = "approved_publish_failed"

\* C6: whatever the allow-list, a check run changes the status of a record
\* only on a message whose author is a member of the allow-list.
C6_OnlyAllowListedAuthors ==
    [][ \A d \in Days :
          ( /\ last'.op = "check"
            /\ StatusOf(approvals', d) # StatusOf(approvals, d) )
          => approvals'[d].decision_by \in last'.users ]_vars

\* C7 as stated: a request without --force for a day whose record has the
\* content_id of the day's validated atom and status pending or approved
\* posts nothing, leaves the state file unchanged and exits 0.
C7_RerequestNoOpAsStated ==
    [][ ( /\ last'.op = "request" /\ ~last'.flag
          /\ validated[last'.day].present
          /\ approvals[last'.day].present
          /\ approvals[last'.day].content_id =
                validated[last'.day].content_id
          /\ approvals[last'.day].status \in {"pending", "approved"} )
        => ( /\ approvals' = approvals
             /\ ~last'.called
             /\ last'.rc = 0 ) ]_vars

\* C7 amended: the same, for a request whose webhook URL is configured
\* (without one the request exits 2, also without posting or writing).
C7_RerequestNoOp ==
    [][ ( /\ last'.op = "request" /\ ~last'.flag
          /\ validated[last'.day].present
          /\ approvals[last'.day].present
          /\ approvals[last'.day].content_id =
                validated[last'.day].content_id
          /\ approvals[last'.day].status \in {"pending", "approved"} )
        => ( /\ approvals' = approvals
             /\ ~last'.called
             /\ last'.rc = IF last'.io = "missing" THEN 2 ELSE 0 ) ]_vars

\* C7 witness: a request without --force, with a working webhook, was a no-op
\* on an approved record of the same content_id.
C7_Witness ==
    /\ last.op = "request" /\ ~last.flag /\ last.io = "ok"
    /\ last.rc = 0 /\ ~last.called
    /\ validated[last.day].present
    /\ approvals[last.day].present
    /\ approvals[last.day].status = "approved"
    /\ approvals[last.day].content_id = validated[last.day].content_id

\* C17: a check run whose notification posts all fail leaves the state
\* file that the same run with working notifications leaves, and exits 0:
\* no failed post prevents or reverts a status transition.
C17_NotificationFailureHarmless ==
    [][ ( /\ last'.op = "check" /\ last'.io = "ok"
          /\ last'.notify = "fail" )
        => /\ last'.rc = 0
           /\ \E rcs \in PublishResults(last'.flag) :
                 approvals' = check_mode(approvals, channel, "ok",
                                         last'.users, last'.flag, rcs,
                                         "ok").approvals ]_vars

\* C17 witness: a check --publish run whose notification posts failed has
\* written a decision, and a day stands at published.
C17_Witness ==
    /\ last.op = "check" /\ last.flag /\ last.notify = "fail"
    /\ last.called /\ last.rc = 0
    /\ \E d \in Days : StatusOf(approvals, d) = "published"

----------------------------------------------------------------------------
(* write_script_from_fact.py: content identity                             *)

\* sha256_text, lines 30-31: the digest stands for its input.
sha256_text(s) == [sha256 |-> s]

\* digest[:n]
hex_prefix(digest, n) == [hex |-> n, of |-> digest]

\* The characters of the model's alphabet that are not in [a-zA-Z0-9].
NonAlnum == {"_", " ", "-", "|", "'"}

\* str.lower on one character.
lower_char(c) ==
    CASE c = "B" -> "b" [] c = "C" -> "c" [] c = "G" -> "g" [] c = "M" -> "m"
      [] c = "O" -> "o" [] c = "T" -> "t" [] OTHER -> c

\* re.sub(r"[class]+", "-", s): every run of characters of the class
\* becomes one "-".
RECURSIVE re_sub_runs(_, _)
re_sub_runs(s, class) ==
    IF s = <<>> THEN <<>>
    ELSE IF Head(s) \in class
         THEN IF Len(s) > 1 /\ s[2] \in class
              THEN re_sub_runs(Tail(s), class)
              ELSE <<"-">> \o re_sub_runs(Tail(s), class)
         ELSE <<Head(s)>> \o re_sub_runs(Tail(s), class)

\* str.strip(chars)
RECURSIVE strip(_, _)
strip(s, chars) ==
    IF s = <<>> THEN <<>>
    ELSE IF Head(s) \in chars THEN strip(Tail(s), chars)
    ELSE IF s[Len(s)] \in chars THEN strip(SubSeq(s, 1, Len(s) - 1), chars)
    ELSE s

\* slugify, lines 107-110.
slugify(s) ==
    LET low == [i \in 1..Len(strip(s, {" "})) |->
                   lower_char(strip(s, {" "})[i])]
        txt == strip(re_sub_runs(re_sub_runs(low, NonAlnum), {"-"}), {"-"})
    IN  IF txt = <<>> THEN <<"n", "a">> ELSE txt

\* strftime("%Y-%m-%d") of a date, and the text of an atom's "day".
day_text(day) ==
    IF day = DaySeq[1] THEN <<"2","0","2","4","-","0","1","-","0","1">>
    ELSE IF day = DaySeq[2] THEN <<"2","0","2","4","-","0","1","-","0","2">>
    ELSE <<>>

\* str(pk) of a primary key.
str_pk(pk) ==
    <<CASE pk = 3 -> "3" [] pk = 5 -> "5" [] pk = 7 -> "7" [] OTHER -> "9">>

\* build_content_contract, lines 645-705; now is the date datetime.now()
\* gives while it runs.
build_content_contract(atom, script_id, script, fact, style, now) ==
    LET day      == IF atom.day # "" THEN day_text(atom.day) ELSE day_text(now)
        month_id == SubSeq(day, 1, 7)
        category == slugify(atom.category)
        angle    == slugify(atom.angle)
        voice    == slugify(IF style.voice # <<>> THEN style.voice
                            ELSE <<"f","r","i","e","n","d","l","y","_",
                                   "v","e","t">>)
        tone     == slugify(IF style.tone # <<>> THEN style.tone
                            ELSE <<"n","e","u","t","r","a","l">>)
        kind     == slugify(IF fact.kind # <<>> THEN fact.kind
                            ELSE <<"u","n","k","n","o","w","n">>)
        fact_pk  == slugify(IF fact.pk # 0 THEN str_pk(fact.pk)
                            ELSE IF fact.name # <<>> THEN fact.name
                            ELSE <<"u","n","k","n","o","w","n">>)
        canonical_base == day \o <<"-">> \o category \o <<"-">> \o kind
                              \o <<"-">> \o fact_pk
        canonical_hash == sha256_text(<<canonical_base, "|", script_id>>)
        short_hash == hex_prefix(canonical_hash, 12)
        content_id == [base |-> <<"b","g","p","-">> \o canonical_base,
                       short |-> short_hash]
        episode_id == [base |-> <<"e","p","-">> \o day \o <<"-">> \o category,
                       short |-> short_hash]
        segment_id(key) ==
            [seg |-> key,
             h |-> hex_prefix(sha256_text(<<content_id, "|", key>>), 10)]
    IN  [present |-> TRUE,
         content_id |-> content_id,
         episode_id |-> episode_id,
         month_id |-> month_id,
         month_bundle_id |->
            [month |-> month_id,
             h |-> hex_prefix(sha256_text(month_id), 8)],
         canonical_hash |-> canonical_hash,
         script_id |-> script_id,
         asset_contract |->
            [voice_pack_id |-> <<"v","o","i","c","e","-">> \o voice,
             visual_pack_id |-> <<"v","i","s","u","a","l","-">> \o category,
             timeline_id |->
                hex_prefix(sha256_text(<<content_id, "|", "timeline">>), 10)],
         segments |->
            [key \in {"hook", "body", "cta"} |->
               [segment_id |-> segment_id(key),
                text |-> script[key],
                voice_track_id |->
                   hex_prefix(sha256_text(<<segment_id(key), "|voice">>), 10),
                visual_asset_id |->
                   hex_prefix(sha256_text(<<segment_id(key), "|visual">>), 10)]],
         tags |-> {<<"c","o","n","t","e","n","t","_","p","r","e","s","s">>,
                   <<"s","h","o","r","t","s">>, month_id, category, angle,
                   kind, voice, tone, slugify(fact.document)}]

----------------------------------------------------------------------------
(* make_atom.py and the stages it launches.  A stage takes the files       *)
(* fs = [incoming, srd, history] and gives [ok, fs]; ok is FALSE when the   *)
(* stage exits non-zero or dies on an exception.                           *)

Stopped(fs) == [ok |-> FALSE, fs |-> fs, drawn |-> 0]
Done(fs) == [ok |-> TRUE, fs |-> fs, drawn |-> 0]

\* The pks of a fixture file (fill_picks.py fixture_pks, lines 39-47;
\* pick_creature.py line 88): none when the file is not a list of records.
fixture_pks(file) ==
    IF file.is_list THEN [i \in 1..Len(file.records) |-> file.records[i].pk]
    ELSE <<>>

\* random.choice(options) on the generator's next output r.
random_choice(r, options) == options[(r % Len(options)) + 1]

\* The k-th output of the generator after random.seed(seed): a fixed
\* function of the seed string, here of the day and category it is made of.
seeded_random(day, category, k) ==
    (IF day = DaySeq[1] THEN 0 ELSE 1)
    + (IF category = monster_tactic THEN 0 ELSE 1) + k

\* fill_picks.py ensure_pick, lines 61-68.
ensure_pick(old, value) == IF old = 0 THEN value ELSE old

\* fill_picks.py main, lines 81-142: the atom is the one of today's date
\* (lines 35-37) and the generator is seeded from the system (line 82), so
\* its output r is any number.
fill_picks(fs, today, r) ==
    LET atom == fs.incoming[today]
    IN  IF ~atom.present THEN Stopped(fs)
        ELSE IF atom.category = monster_tactic
        THEN LET pks == fixture_pks(fs.srd.creature)
             IN  IF pks = <<>> THEN Stopped(fs)
                 ELSE [ok |-> TRUE,
                       drawn |-> random_choice(r, pks),
                       fs |-> [fs EXCEPT !.incoming[today].picks.creature_pk =
                                 ensure_pick(@, random_choice(r, pks))]]
        ELSE IF atom.category = spell_use_case
        THEN LET pks == fixture_pks(fs.srd.spell)
             IN  IF pks = <<>> THEN Stopped(fs)
                 ELSE [ok |-> TRUE,
                       drawn |-> random_choice(r, pks),
                       fs |-> [fs EXCEPT !.incoming[today].picks.spell_pk =
                                 ensure_pick(@, random_choice(r, pks))]]
        ELSE Stopped(fs)

\* pick_creature.py main, lines 71-106: the atom with its pick is written to
\* "path", which line 85 has set to the dataset file.
pick_creature(fs, day) ==
    LET atom == fs.incoming[day]
        pks  == fixture_pks(fs.srd.creature)
    IN  IF ~atom.present \/ atom.category # monster_tactic THEN Stopped(fs)
        ELSE IF pks = <<>> THEN Stopped(fs)
        ELSE [ok |-> TRUE,
              drawn |-> random_choice(seeded_random(day, atom.category, 1),
                                      pks),
              fs |-> [fs EXCEPT !.srd.creature = ObjectFile]]

\* pick_spell.py main, lines 38-63: the same, on the spell file.
pick_spell(fs, day) ==
    LET atom == fs.incoming[day]
        pks  == fixture_pks(fs.srd.spell)
    IN  IF ~atom.present \/ atom.category # spell_use_case THEN Stopped(fs)
        ELSE IF pks = <<>> THEN Stopped(fs)
        ELSE [ok |-> TRUE,
              drawn |-> random_choice(seeded_random(day, atom.category, 1),
                                      pks),
              fs |-> [fs EXCEPT !.srd.spell = ObjectFile]]

\* attach_fact.py index_by_pk(...).get(pk), lines 31-37 and 100: the record
\* of that pk, or none.
RECURSIVE lookup_pk(_, _)
lookup_pk(records, pk) ==
    IF records = <<>> THEN [pk |-> 0, name |-> <<>>]
    ELSE IF records[Len(records)].pk = pk THEN records[Len(records)]
    ELSE lookup_pk(SubSeq(records, 1, Len(records) - 1), pk)

\* attach_fact.py main, lines 63-165, on the atom of today's date (line 14).
attach_fact(fs, today) ==
    LET atom == fs.incoming[today]
        creature == atom.category = monster_tactic
        pk   == IF creature THEN atom.picks.creature_pk
                ELSE atom.picks.spell_pk
        file == IF creature THEN fs.srd.creature ELSE fs.srd.spell
        rec  == lookup_pk(IF file.is_list THEN file.records ELSE <<>>, pk)
    IN  IF ~atom.present \/ atom.category \notin Categories THEN Stopped(fs)
        ELSE IF pk = 0 THEN Stopped(fs)
        ELSE IF rec.pk = 0 THEN Stopped(fs)
        ELSE Done([fs EXCEPT !.incoming[today].fact =
                     [kind |-> IF creature
                               THEN <<"c","r","e","a","t","u","r","e">>
                               ELSE <<"s","p","e","l","l">>,
                      pk |-> pk, name |-> rec.name, document |-> <<>>]])

\* The days before day that pick_style looks back on (lines 46-62, 131-132),
\* nearest first; days outside the model have no history.
days_before(day) == IF day = DaySeq[2] THEN <<DaySeq[1]>> ELSE <<>>

\* The options left after dropping the avoided values, or all of them when
\* none is left (pick_style.py choose_avoid, choose_avoid_many, 134-141).
avoid(options, avoid_values) ==
    LET opts == SelectSeq(options, LAMBDA o : o \notin avoid_values)
    IN  IF opts = <<>> THEN options ELSE opts

\* pick_style.py main, lines 84-198, on the atom of BIZZAL_DAY, which
\* make_atom has set to its day; the generator is seeded with day|category.
pick_style(fs, day) ==
    LET atom == fs.incoming[day]
        category == atom.category
        before == days_before(day)
        prev == IF before = <<>> THEN NoHistory
                ELSE fs.history[before[1]][category]
        keep == atom.angle \in Angles
        angle == IF keep THEN atom.angle
                 ELSE random_choice(seeded_random(day, category, 1),
                                    avoid(<<how_it_wins>>, {prev.angle}))
        k == IF keep THEN 0 ELSE 1
        voice == random_choice(seeded_random(day, category, k + 1),
                               avoid(Voices, {prev.voice}))
        recent_tones == { fs.history[before[i]][category].tone :
                             i \in 1..Len(before) } \ {<<>>}
        tone == random_choice(seeded_random(day, category, k + 2),
                              avoid(Tones, recent_tones))
    IN  IF ~atom.present \/ category \notin Categories THEN Stopped(fs)
        ELSE Done([fs EXCEPT
                 !.incoming[day].angle = angle,
                 !.incoming[day].style = [voice |-> voice, tone |-> tone],
                 !.history[day][category] =
                     [present |-> TRUE, angle |-> angle, voice |-> voice,
                      tone |-> tone]])

\* What the AI polish makes of a text (maybe_ai_polish_script, lines
\* 518-642): the text itself when the polish is off or fails, else the
\* rewrite the service returned.
PolishOutcomes == {"off", "rewrite1", "rewrite2"}
polished(text, polish) ==
    IF polish = "off" THEN text ELSE <<"ai", text, polish>>

\* The characters str.strip() removes.
Whitespace == {" ", "\n"}

\* A packing that leaves the cta out.
packed_without_cta(script) ==
    <<strip(script.hook, Whitespace), "\n",
      strip(script.body, Whitespace), "\n">>

\* The hook/body/cta packed for hashing (write_script_from_fact.py line
\* 1543, make_atom.py lines 186-187): each field stripped, each followed by
\* a newline.
packed(script) ==
    <<strip(script.hook, Whitespace), "\n",
      strip(script.body, Whitespace), "\n",
      strip(script.cta, Whitespace), "\n">>

\* write_script_from_fact.py main, lines 1471-1548, on the atom of today's
\* date (line 13).
write_script_from_fact(fs, today, polish) ==
    LET atom == fs.incoming[today]
        fact == atom.fact
        day  == IF atom.day # "" THEN atom.day ELSE today
        text(part) == <<part, atom.style.voice, atom.category, fact.name,
                        atom.angle, day>>
        script == [part \in {"hook", "body", "cta"} |->
                      polished(text(part), polish)]
        script_id == sha256_text(packed(script))
    IN  IF ~atom.present THEN Stopped(fs)
        ELSE IF fact.kind = <<>> THEN Stopped(fs)
        ELSE Done([fs EXCEPT
                 !.incoming[today].script = script,
                 !.incoming[today].script_id = script_id,
                 !.incoming[today].content =
                     build_content_contract(atom, script_id, script, fact,
                                            atom.style, today)])

\* make_atom.py minimal_validate, line 167.
required_top ==
    <<"day", "created_at", "category", "angle", "style", "picks", "fact",
      "script", "script_id", "content">>

\* A validation without the script_id integrity check.
minimal_validate_without_integrity(atom) ==
    LET absent == { i \in 1..Len(required_top) :
                       required_top[i] \in atom.missing }
        blank  == { k \in {"hook", "body", "cta"} :
                       strip(atom.script[k], Whitespace) = <<>> }
    IN  IF absent # {}
        THEN [ok |-> FALSE,
              msg |-> "missing key: " \o
                      required_top[CHOOSE i \in absent :
                                      \A j \in absent : i <= j]]
        ELSE IF blank # {}
        THEN [ok |-> FALSE,
              msg |-> "script missing/blank: " \o
                      (IF "hook" \in blank THEN "hook"
                       ELSE IF "body" \in blank THEN "body" ELSE "cta")]
        ELSE IF ~atom.content.present
        THEN [ok |-> FALSE, msg |-> "content missing key: content_id"]
        ELSE [ok |-> TRUE, msg |-> "ok"]

\* make_atom.py minimal_validate, lines 165-212: the verdict and message.
\* An atom of the model always holds dicts where dicts are required, and a
\* content dict that has its keys has its three segments with their ids.
minimal_validate(atom) ==
    LET absent == { i \in 1..Len(required_top) :
                       required_top[i] \in atom.missing }
        blank  == { k \in {"hook", "body", "cta"} :
                       strip(atom.script[k], Whitespace) = <<>> }
    IN  IF absent # {}
        THEN [ok |-> FALSE,
              msg |-> "missing key: " \o
                      required_top[CHOOSE i \in absent :
                                      \A j \in absent : i <= j]]
        ELSE IF blank # {}
        THEN [ok |-> FALSE,
              msg |-> "script missing/blank: " \o
                      (IF "hook" \in blank THEN "hook"
                       ELSE IF "body" \in blank THEN "body" ELSE "cta")]
        ELSE IF atom.script_id # sha256_text(packed(atom.script))
        THEN [ok |-> FALSE, msg |-> "script_id does not match script content"]
        ELSE IF ~atom.content.present
        THEN [ok |-> FALSE, msg |-> "content missing key: content_id"]
        ELSE IF atom.content.script_id # atom.script_id
        THEN [ok |-> FALSE,
              msg |-> "content.script_id does not match script_id"]
        ELSE [ok |-> TRUE, msg |-> "ok"]

\* What another writer does to the day's atom file after the last stage
\* has written it and before make_atom reloads it at line 303: nothing, a
\* new script_id, a new hook, a hook with a trailing space, a new
\* content.script_id, or the file without its content key.
Alterations ==
    {"none", "script_id", "hook", "hook_pad", "content_script_id",
     "drop_content"}
altered(atom, alter) ==
    CASE alter = "script_id" ->
           [atom EXCEPT !.script_id = sha256_text(<<"e","d","i","t">>)]
      [] alter = "hook" ->
           [atom EXCEPT !.script.hook = <<"e","d","i","t">>]
      [] alter = "hook_pad" ->
           [atom EXCEPT !.script.hook = Append(@, " ")]
      [] alter = "content_script_id" ->
           [atom EXCEPT !.content.script_id = sha256_text(<<"e","d","i","t">>)]
      [] alter = "drop_content" ->
           [atom EXCEPT !.missing = @ \cup {"content"}]
      [] OTHER -> atom

\* A routing that moves a rejected atom to failed/ without an error record.
validate_and_route_without_record(atom, tick) ==
    LET verdict == minimal_validate(atom)
    IN  IF verdict.ok
        THEN [rc |-> 0, to |-> "validated", atom |-> atom, msg |-> verdict.msg]
        ELSE [rc |-> 2, to |-> "failed", atom |-> atom, msg |-> verdict.msg]

\* make_atom.py main, lines 303-319, on the atom loaded from incoming/ at
\* the time tick: the exit code, the directory the file is moved to and
\* the atom that arrives there.
validate_and_route(atom, tick) ==
    LET verdict == minimal_validate(atom)
    IN  IF verdict.ok
        THEN [rc |-> 0, to |-> "validated", atom |-> atom, msg |-> verdict.msg]
        ELSE [rc |-> 2, to |-> "failed",
              atom |-> [atom EXCEPT !.errors =
                          Append(@, [at |-> tick, error |-> verdict.msg])],
              msg |-> verdict.msg]

\* The outputs the system's generator can give fill_picks.
RandomOutputs == {0, 1}

\* make_atom.py run, lines 59-67, on one step of the list of line 297.
run(step, files, day, today, polish) ==
    CASE step = "bin/core/attach_fact.py" -> attach_fact(files, today)
      [] step = "bin/core/pick_style.py" -> pick_style(files, day)
      [] OTHER -> write_script_from_fact(files, today, polish)

\* make_atom.py main, lines 297-300: the steps run in order on the files the
\* step before left; make_atom dies when one stops.
RECURSIVE run_steps(_, _, _, _, _)
run_steps(result, steps, day, today, polish) ==
    IF steps = <<>> THEN result
    ELSE CHOOSE out \in
           { IF res.ok
             THEN run_steps([run(Head(steps), res.fs, day, today, polish)
                               EXCEPT !.drawn = res.drawn],
                            Tail(steps), day, today, polish)
             ELSE res : res \in {result} } : TRUE

\* make_atom.py main, lines 243-319, for --day day run on the date today,
\* with the topic spine giving category (and no angle weights), fill_picks.py
\* executable or not, the generator output r, the AI polish outcome and
\* what another writer does to the file before line 303; tick is the clock
\* reading.  rc 1 is die() in run (line 66) with the atom left in incoming/.
make_atom(fs, day, today, category, fill_exec, r, polish, alter, tick) ==
    LET a0  == IF fs.incoming[day].present THEN fs.incoming[day]
               ELSE new_atom(day, tick)
        a1  == [a0 EXCEPT !.category = category,
                          !.angle = IF @ = <<>> THEN how_it_wins ELSE @,
                          !.picks = NoPicks, !.fact = NoFact,
                          !.script = NoScript, !.script_id = NoHash,
                          !.content = NoContent,
                          !.missing = @ \ {"category", "angle", "picks",
                                           "fact", "script", "script_id",
                                           "content"}]
        picker(files) ==
            IF fill_exec THEN fill_picks(files, today, r)
            ELSE IF category = spell_use_case THEN pick_spell(files, day)
            ELSE pick_creature(files, day)
        stages ==
            run_steps(picker([fs EXCEPT !.incoming[day] = a1]),
                      <<"bin/core/attach_fact.py", "bin/core/pick_style.py",
                        "bin/core/write_script_from_fact.py">>,
                      day, today, polish)
    IN  CHOOSE made_atom \in
          { IF ~s.ok
            THEN [rc |-> 1, fs |-> s.fs, drawn |-> s.drawn, atom |-> NoFile,
                  loaded |-> NoFile, msg |-> ""]
            ELSE CHOOSE routed \in
                   { [rc |-> v.rc,
                      fs |-> [s.fs EXCEPT !.incoming[day] = NoFile],
                      drawn |-> s.drawn, atom |-> v.atom,
                      loaded |-> altered(s.fs.incoming[day], alter),
                      msg |-> v.msg] :
                     v \in { validate_and_route(
                                altered(s.fs.incoming[day], alter), tick) } } :
                   TRUE : s \in {stages} } : TRUE

\* What upload_youtube and the publish gate read of a validated atom.
published_view(atom) ==
    [present |-> TRUE, content_id |-> atom.content.content_id,
     script_id |-> atom.script_id]

\* One run of make_atom.py.  The log entry names the alteration that took
\* place: none when the run died before the validation step.
MakeAtom(day, today, category, fill_exec, r, polish, alter) ==
    /\ Len(made) < MaxRuns
    /\ \E result \in { make_atom([incoming |-> incoming, srd |-> srd,
                               history |-> history],
                              day, today, category, fill_exec, r, polish,
                              alter, Len(made) + 1) } :
           /\ incoming' = result.fs.incoming
           /\ srd' = result.fs.srd
           /\ history' = result.fs.history
           /\ validated' = IF result.rc = 0
                           THEN [validated EXCEPT
                                   ![day] = published_view(result.atom)]
                           ELSE validated
           /\ failed' = IF result.rc = 2
                        THEN [failed EXCEPT ![day] = result.atom]
                        ELSE failed
           /\ made' = Append(made,
                 [day |-> day, today |-> today, category |-> category,
                  fill_exec |-> fill_exec, polish |-> polish,
                  alter |-> IF result.rc = 1 THEN "none" ELSE alter,
                  incoming0 |-> incoming, srd0 |-> srd,
                  history0 |-> history,
                  rc |-> result.rc, drawn |-> result.drawn,
                  atom |-> result.atom, loaded |-> result.loaded,
                  msg |-> result.msg,
                  incoming1 |-> result.fs.incoming,
                  srd1 |-> result.fs.srd,
                  validated1 |-> validated'[day],
                  failed1 |-> failed'[day]])
           /\ last' = [Idle EXCEPT !.op = "make_atom", !.day = day,
                                   !.rc = result.rc]
    /\ UNCHANGED <<registry, uploads, approvals, channel, contracts>>
    /\ UNCHANGED sideVars

InitAtom ==
    /\ validated = [d \in Days |-> NoAtom]
    /\ registry = <<>>
    /\ uploads = <<>>
    /\ last = Idle
    /\ approvals = [d \in Days |-> NoApproval]
    /\ channel = <<>>
    /\ AtomIdle

NextAtom ==
    \E day \in Days, today \in Days, category \in Categories,
       fill_exec \in BOOLEAN, r \in RandomOutputs, polish \in PolishOutcomes,
       alter \in Alterations :
        MakeAtom(day, today, category, fill_exec, r, polish, alter)

SpecAtom == InitAtom /\ [][NextAtom]_vars

----------------------------------------------------------------------------
(* build_content_contract applied to two atoms.                            *)

Monster_Tactic ==
    <<"M","o","n","s","t","e","r"," ","T","a","c","t","i","c">>

ContractAtoms ==
    { [day |-> d, category |-> c, angle |-> o.angle,
       created_at |-> o.created_at] :
        d \in {"", DaySeq[1]}, c \in {monster_tactic, Monster_Tactic},
        o \in { [angle |-> how_it_wins, created_at |-> 1],
                [angle |-> <<"m","y","t","h">>, created_at |-> 2] } }

ContractStyle(atom) ==
    IF atom.created_at = 1 THEN [voice |-> Voices[1], tone |-> Tones[1]]
    ELSE [voice |-> Voices[2], tone |-> Tones[2]]

ContractFacts ==
    { [kind |-> <<"c","r","e","a","t","u","r","e">>, pk |-> 7,
       name |-> <<"G","o","b">>, document |-> <<>>],
      [kind |-> <<"c","r","e","a","t","u","r","e">>, pk |-> 0,
       name |-> <<"G","o","b">>, document |-> <<>>],
      [kind |-> <<"C","r","e","a","t","u","r","e">>, pk |-> 0,
       name |-> <<"g","o","b"," ">>, document |-> <<>>] }

ContractScripts ==
    { [hook |-> <<"h", n[1]>>, body |-> <<"b", n[2]>>, cta |-> <<"c", n[3]>>] :
        n \in { <<"1", "1", "1">>, <<"2", "1", "1">>, <<"1", "2", "1">>,
                <<"1", "1", "2">>, <<"2", "2", "2">> } }

\* A call that has not been made yet, with the arguments it will get.
ContractCalls ==
    { [atom |-> a, fact |-> f, script |-> s, now |-> "",
       content |-> NoContent] :
        a \in ContractAtoms, f \in ContractFacts, s \in ContractScripts }

\* write_script_from_fact.py lines 1543-1545 on the date now: script_id and
\* the content contract of the call's atom.
BuildContract(slot, now) ==
    /\ ~contracts[slot].content.present
    /\ LET c == contracts[slot]
       IN  contracts' = [contracts EXCEPT
              ![slot].now = now,
              ![slot].content =
                  build_content_contract(c.atom,
                      sha256_text(packed(c.script)), c.script, c.fact,
                      ContractStyle(c.atom), now)]
    /\ last' = [Idle EXCEPT !.op = "contract", !.day = now]
    /\ UNCHANGED <<validated, registry, uploads, approvals, channel,
                   incoming, failed, srd, history, made>>
    /\ UNCHANGED sideVars

InitContract ==
    /\ validated = [d \in Days |-> NoAtom]
    /\ registry = <<>>
    /\ uploads = <<>>
    /\ last = Idle
    /\ approvals = [d \in Days |-> NoApproval]
    /\ channel = <<>>
    /\ FilesIdle
    /\ SideIdle
    /\ contracts \in [{"a", "b"} -> ContractCalls]

NextContract == \E slot \in {"a", "b"}, now \in Days : BuildContract(slot, now)

SpecContract == InitContract /\ [][NextContract]_vars

----------------------------------------------------------------------------
(* Claims about make_atom, the pickers and the content contract.           *)

\* Two runs of make_atom got the same inputs: day, date, topic spine,
\* fill_picks.py mode, AI polish setting, dataset, incoming files and the
\* style history of the other days (the only history pick_style reads), and
\* no other writer touched the atom.
SameInputs(x, y) ==
    /\ x.day = y.day /\ x.today = y.today
    /\ x.alter = "none" /\ y.alter = "none"
    /\ x.category = y.category
    /\ x.fill_exec = y.fill_exec
    /\ (x.polish = "off") = (y.polish = "off")
    /\ x.srd0 = y.srd0
    /\ \A d \in Days : x.incoming0[d].present = y.incoming0[d].present
    /\ \A d \in Days \ {x.day} : x.history0[d] = y.history0[d]

\* The identifiers of a produced atom.
Identifiers(atom) ==
    <<atom.picks, atom.script_id, atom.content.content_id,
      atom.content.episode_id, atom.content.canonical_hash,
      [k \in {"hook", "body", "cta"} |->
          atom.content.segments[k].segment_id]>>

\* C8: two make_atom runs for the same day with unchanged dataset,
\* configuration and style history produce atoms with identical picks,
\* script_id, content_id, episode_id, canonical_hash and segment ids.
C8_RerunReproducesIdentifiers ==
    \A i, j \in 1..Len(made) :
        ( /\ made[i].rc = 0 /\ made[j].rc = 0
          /\ SameInputs(made[i], made[j]) )
        => Identifiers(made[i].atom) = Identifiers(made[j].atom)

\* C9: the picker that make_atom runs draws the same primary key on two
\* invocations for the same day and category over an unchanged dataset.
C9_PickerDrawsSamePk ==
    \A i, j \in 1..Len(made) :
        ( /\ made[i].drawn # 0 /\ made[j].drawn # 0
          /\ SameInputs(made[i], made[j]) )
        => made[i].drawn = made[j].drawn

\* The five inputs of a build_content_contract call.
FiveInputs(call) ==
    <<call.atom.day, slugify(call.atom.category), slugify(call.fact.kind),
      slugify(IF call.fact.pk # 0 THEN str_pk(call.fact.pk)
              ELSE call.fact.name),
      sha256_text(packed(call.script))>>

\* C10: build_content_contract gives two atoms that agree on day, category
\* slug, fact kind slug, fact pk-or-name slug and script_id the same
\* content_id, episode_id, canonical_hash and segment ids, whatever their
\* angle, style, created_at or the date of the computation, and content_id
\* is "bgp-" + base + "-" + sha256(base + "|" + script_id)[:12] with
\* base = day-category-kind-fact_pk.
C10_ContractDependsOnFiveInputs ==
    /\ \A x, y \in DOMAIN contracts :
          ( /\ contracts[x].content.present /\ contracts[y].content.present
            /\ FiveInputs(contracts[x]) = FiveInputs(contracts[y]) )
          => /\ contracts[x].content.content_id =
                   contracts[y].content.content_id
             /\ contracts[x].content.episode_id =
                   contracts[y].content.episode_id
             /\ contracts[x].content.canonical_hash =
                   contracts[y].content.canonical_hash
             /\ \A k \in {"hook", "body", "cta"} :
                   contracts[x].content.segments[k].segment_id =
                      contracts[y].content.segments[k].segment_id
    /\ \A x \in DOMAIN contracts :
          ( contracts[x].content.present /\ contracts[x].atom.day # "" )
          => LET in   == FiveInputs(contracts[x])
                 base == day_text(in[1]) \o <<"-">> \o in[2] \o <<"-">>
                            \o in[3] \o <<"-">> \o in[4]
             IN  contracts[x].content.content_id =
                   [base |-> <<"b","g","p","-">> \o base,
                    short |-> [hex |-> 12,
                               of |-> [sha256 |-> <<base, "|", in[5]>>]]]

\* The two scripts differ in exactly one of hook, body, cta.
OneFieldDiffers(s, t) ==
    Cardinality({ k \in {"hook", "body", "cta"} : s[k] # t[k] }) = 1

\* Two computed contracts whose calls differ in one script field only.
OneFieldApart(x, y) ==
    /\ contracts[x].content.present /\ contracts[y].content.present
    /\ contracts[x].atom = contracts[y].atom
    /\ contracts[x].fact = contracts[y].fact
    /\ contracts[x].now = contracts[y].now
    /\ OneFieldDiffers(contracts[x].script, contracts[y].script)

\* C11: changing a single script field (hook, body or cta) of an atom
\* changes script_id, canonical_hash, content_id and the segment_id,
\* voice_track_id and visual_asset_id of all three segments, and leaves
\* month_bundle_id unchanged.
C11_ScriptFieldChangesIds ==
    \A x, y \in DOMAIN contracts :
        OneFieldApart(x, y)
        => LET c == contracts[x].content
               e == contracts[y].content
           IN  /\ c.script_id # e.script_id
               /\ c.canonical_hash # e.canonical_hash
               /\ c.content_id # e.content_id
               /\ \A k \in {"hook", "body", "cta"} :
                     /\ c.segments[k].segment_id # e.segments[k].segment_id
                     /\ c.segments[k].voice_track_id #
                           e.segments[k].voice_track_id
                     /\ c.segments[k].visual_asset_id #
                           e.segments[k].visual_asset_id
               /\ c.month_bundle_id = e.month_bundle_id

\* C11 witness: two contracts were computed for the same atom, fact and
\* date from scripts that differ in the cta only.
C11_Witness ==
    /\ OneFieldApart("a", "b")
    /\ contracts["a"].script.cta # contracts["b"].script.cta

----------------------------------------------------------------------------
(* Claims about validation and routing in make_atom.                       *)

\* The run reached the validation step (line 303).
ReachedValidation(m) == m.rc \in {0, 2}

\* The atom's script_id is the digest of its current script, and its
\* content.script_id is its script_id.
ScriptIdIntact(atom) ==
    /\ atom.script_id = sha256_text(packed(atom.script))
    /\ atom.content.script_id = atom.script_id

\* C12 as stated: an atom is moved to validated/ only if its script_id is
\* the sha256 of its stripped hook, body and cta, each followed by a
\* newline, and content.script_id equals it; and an atom whose script_id or
\* script text was altered after the script was written is rejected.
C12_AlteredAtomRejectedAsStated ==
    \A i \in 1..Len(made) :
        /\ made[i].rc = 0 => ScriptIdIntact(made[i].loaded)
        /\ ( /\ ReachedValidation(made[i])
             /\ made[i].alter \in {"script_id", "hook", "hook_pad"} )
           => made[i].rc = 2

\* C12 amended: the same, for an alteration of script_id or an alteration
\* of the script text that changes a field after strip(); an alteration in
\* the leading or trailing whitespace of a field is not seen.
C12_AlteredAtomRejected ==
    \A i \in 1..Len(made) :
        /\ made[i].rc = 0 => ScriptIdIntact(made[i].loaded)
        /\ ( /\ ReachedValidation(made[i])
             /\ made[i].alter \in {"script_id", "hook"} )
           => made[i].rc = 2
        /\ ( /\ ReachedValidation(made[i])
             /\ made[i].alter \in {"hook_pad", "none"}
             /\ made[i].loaded.script_id # NoHash )
           => made[i].rc = 0

\* C12 witness: a run whose stages wrote the script and the contract found
\* the hook altered at validation and rejected the atom for its script_id.
C12_Witness ==
    \E i \in 1..Len(made) :
        /\ made[i].alter = "hook" /\ made[i].rc = 2
        /\ made[i].loaded.content.present
        /\ made[i].msg = "script_id does not match script content"

\* C13: a make_atom run that reaches the validation step moves the day's
\* atom out of incoming/; into validated/ with exit 0 if and only if
\* minimal_validate accepts the atom it loaded; otherwise into failed/
\* with exit 2, after appending one error record carrying the validator's
\* message, which is "missing key: content" when the content key is absent.
C13_ValidationRoutes ==
    \A i \in 1..Len(made) :
        ReachedValidation(made[i])
        => LET m == made[i]
               verdict == minimal_validate(m.loaded)
           IN  /\ ~m.incoming1[m.day].present
               /\ (m.rc = 0) = verdict.ok
               /\ m.rc = 0
                  => /\ m.validated1 = published_view(m.loaded)
                     /\ m.atom = m.loaded
               /\ m.rc # 0
                  => /\ m.rc = 2
                     /\ m.failed1 =
                          [m.loaded EXCEPT !.errors =
                              Append(@, [at |-> i, error |-> verdict.msg])]
                     /\ m.msg = verdict.msg
                     /\ "content" \in m.loaded.missing
                        => verdict.msg = "missing key: content"

\* C13 witness: a run found the atom without its content key, recorded
\* "missing key: content" and moved the atom to failed/.
C13_Witness ==
    \E i \in 1..Len(made) :
        /\ made[i].alter = "drop_content" /\ made[i].rc = 2
        /\ made[i].loaded.script_id # NoHash
        /\ failed[made[i].day].present
        /\ Len(failed[made[i].day].errors) = 1
        /\ failed[made[i].day].errors[1].error = "missing key: content"

\* The picker of the run drew a pk and a later stage exited non-zero: of
\* the stages after the picker only attach_fact stops, on a missing pk
\* (exit 4) or a pk without record (exit 5).
AttachFactFailed(m) ==
    /\ m.rc = 1 /\ m.drawn # 0
    /\ ~attach_fact([incoming |-> m.incoming1, srd |-> m.srd1,
                     history |-> m.history0], m.today).ok

\* C14: when attach_fact fails with a data error in a make_atom run, the
\* day's atom is moved to failed/ with an error record appended and is not
\* left in incoming/.
C14_DataErrorRoutesToFailed ==
    \A i \in 1..Len(made) :
        AttachFactFailed(made[i])
        => /\ ~made[i].incoming1[made[i].day].present
           /\ made[i].failed1.present
           /\ made[i].failed1.errors # <<>>

\* C15: no stage of a make_atom run writes to a reference dataset file;
\* every dataset file has the same content after the run as before it.
C15_DatasetReadOnly ==
    \A i \in 1..Len(made) : made[i].srd1 = made[i].srd0

\* C16: the stages a make_atom run for day D launches write
\* data/atoms/incoming/D.json and no other day's atom file, also when D is
\* not the calendar date of the run.
C16_StagesUseDayOfRun ==
    \A i \in 1..Len(made) :
        \A d \in Days \ {made[i].day} :
            made[i].incoming1[d] = made[i].incoming0[d]

----------------------------------------------------------------------------
(* write_script_from_fact.py maybe_ai_polish_script.  A text is a sequence *)
(* of words; a phrase that a gate looks for is one word, and "." ends a    *)
(* sentence.                                                               *)

\* is_generic_hook (lines 889-899) and is_generic_cta (901-909): the
\* phrases looked for.
GenericHookPhrases ==
    {"explore the moral dilemma", "gather 'round", "gather round",
     "delve into", "haunting world", "shine a light on"}
GenericCtaPhrases ==
    {"create a tense environment", "challenge players to decide",
     "weigh their choices", "in your next session"}

\* The words of a text.
words_of(text) == { text[i] : i \in 1..Len(text) }

is_generic_hook(text) == words_of(text) \cap GenericHookPhrases # {}
is_generic_cta(text) == words_of(text) \cap GenericCtaPhrases # {}

\* clean_script_text, lines 827-842: a text that is not empty ends with a
\* terminal punctuation.
clean_script_text(text) ==
    IF text = <<>> THEN text
    ELSE IF text[Len(text)] = "." THEN text ELSE Append(text, ".")

\* The first sentence of a text (split_sentences, lines 287-292).
first_sentence(text) ==
    LET stops == { i \in 1..Len(text) : text[i] = "." }
    IN  IF stops = {} THEN text
        ELSE SubSeq(text, 1, CHOOSE i \in stops : \A j \in stops : i <= j)

\* clean_ai_style_text, lines 845-886: the phrase replacements, and the
\* first sentence only of a hook.  The texts of the model are shorter than
\* the 110 and 190 characters at which hook and cta are cut.
clean_ai_style_text(text, segment) ==
    LET txt == clean_script_text(text)
        swapped == [i \in 1..Len(txt) |->
                      CASE txt[i] = "delve into" -> "run"
                        [] txt[i] = "haunting world" -> "encounter"
                        [] OTHER -> txt[i]]
    IN  IF txt = <<>> THEN txt
        ELSE IF segment = "hook"
        THEN clean_script_text(first_sentence(swapped))
        ELSE clean_script_text(swapped)

\* The numeric literals of the model's texts (regex of line 513).
Numerals == {"7"}

\* locked_tokens, lines 506-515.
locked_tokens(script, fact_name) ==
    (IF fact_name # "" THEN {fact_name} ELSE {})
    \cup ((words_of(script.hook) \cup words_of(script.body)
           \cup words_of(script.cta)) \cap Numerals)

\* ai_references_pdf_flavor, lines 313-320, with the keywords of the
\* snippet (pdf_flavor_keywords leaves the fact name out).
ai_references_pdf_flavor(blob, snippet, fact_name) ==
    LET keys == words_of(snippet) \ {fact_name}
    IN  keys = {} \/ keys \cap words_of(blob) # {}

\* maybe_ai_polish_script, lines 518-642.  setting: "off"
\* (BIZZAL_ENABLE_AI_SCRIPT unset), "nokey" (no or placeholder API key),
\* "on"; pdf_required is BIZZAL_REQUIRE_PDF_FLAVOR; snippet is the PDF flavor
\* snippet found (<<>>: none); response is what the call gives: it raises,
\* or it returns a JSON object whose hook, body, cta are texts (<<>> when
\* the key is absent or empty).
maybe_ai_polish_script(script, fact_name, setting, pdf_required, snippet, response) ==
    LET out0 == [k \in {"hook", "body", "cta"} |->
                   clean_ai_style_text(IF response[k] # <<>> THEN response[k]
                                       ELSE script[k], k)]
        out1 == IF is_generic_hook(out0.hook)
                THEN [out0 EXCEPT !.hook =
                        clean_ai_style_text(script.hook, "hook")]
                ELSE out0
        out  == IF is_generic_cta(out1.cta)
                THEN [out1 EXCEPT !.cta =
                        clean_ai_style_text(script.cta, "cta")]
                ELSE out1
        blob == out.hook \o out.body \o out.cta
    IN  IF setting # "on" THEN script
        ELSE IF pdf_required /\ snippet = <<>> THEN script
        ELSE IF response.raised THEN script
        ELSE IF \E t \in locked_tokens(script, fact_name) :
                   t \notin words_of(blob)
        THEN script
        ELSE IF out.hook = <<>> \/ out.body = <<>> \/ out.cta = <<>>
        THEN script
        ELSE IF /\ snippet # <<>>
                /\ ~ai_references_pdf_flavor(blob, snippet, fact_name)
        THEN script
        ELSE out

\* The deterministic draft of a script about the creature Gob, as main
\* passes it (cleaned, lines 1525-1529).
DraftScript ==
    [hook |-> <<"Gob", "strikes", "first", ".">>,
     body |-> <<"Gob", "has", "7", "hp", ".">>,
     cta  |-> <<"try", "Gob", "tonight", ".">>]

\* What the service can return for each field.
AiHooks ==
    { <<>>, <<"shine a light on", "Gob", ".">>,
      <<"Gob", "ambushes", "the", "lair", ".">> }
AiBodies ==
    { <<>>, <<"Gob", "keeps", "7", "hp", "in", "its", "lair", ".">>,
      <<"Gob", "keeps", "7", "hp", ".">>, <<"it", "hits", "hard", ".">> }
AiCtas ==
    { <<>>, <<"challenge players to decide", ".">>,
      <<"run", "Gob", "tonight", ".">> }
AiResponses ==
    { [raised |-> TRUE, hook |-> <<>>, body |-> <<>>, cta |-> <<>>] }
    \cup { [raised |-> FALSE, hook |-> h, body |-> b, cta |-> c] :
             h \in AiHooks, b \in AiBodies, c \in AiCtas }

\* A call that has not been made yet, with the arguments it will get.
AiCalls ==
    { [script |-> DraftScript, fact_name |-> "Gob", setting |-> g,
       pdf_required |-> q, snippet |-> n, response |-> r,
       done |-> FALSE, out |-> NoScript] :
        g \in {"off", "nokey", "on"}, q \in BOOLEAN,
        n \in { <<>>, <<"Gob", "lair">> }, r \in AiResponses }

\* write_script_from_fact.py main, line 1531: the polish of the draft.
Polish ==
    /\ ~ai.done
    /\ ai' = [ai EXCEPT !.done = TRUE,
                        !.out = maybe_ai_polish_script(ai.script,
                                    ai.fact_name, ai.setting, ai.pdf_required,
                                    ai.snippet, ai.response)]
    /\ last' = [Idle EXCEPT !.op = "polish"]
    /\ UNCHANGED <<validated, registry, uploads, approvals, channel,
                   incoming, failed, srd, history, made, contracts,
                   disk, writers, observed, draws, laterVars>>

InitPolish ==
    /\ validated = [d \in Days |-> NoAtom]
    /\ registry = <<>>
    /\ uploads = <<>>
    /\ last = Idle
    /\ approvals = [d \in Days |-> NoApproval]
    /\ channel = <<>>
    /\ FilesIdle
    /\ contracts = <<>>
    /\ LaterIdle
    /\ ai \in AiCalls
    /\ disk = <<>>
    /\ writers = <<>>
    /\ observed = <<>>
    /\ draws = <<>>

NextPolish == Polish

SpecPolish == InitPolish /\ [][NextPolish]_vars

\* The service's answer fails a validation gate: a locked token of the
\* draft is in none of its fields, a field is empty, its hook or cta holds
\* a generic phrase, or a snippet was given and none of its keywords is in
\* the answer.
FailsAGate(call) ==
    LET r == call.response
        answer == words_of(r.hook) \cup words_of(r.body) \cup words_of(r.cta)
    IN  \/ \E t \in {call.fact_name, "7"} : t \notin answer
        \/ r.hook = <<>> \/ r.body = <<>> \/ r.cta = <<>>
        \/ words_of(r.hook) \cap GenericHookPhrases # {}
        \/ words_of(r.cta) \cap GenericCtaPhrases # {}
        \/ /\ call.snippet # <<>>
           /\ "lair" \notin answer

\* C18: when AI script polish is enabled and the call raises or the answer
\* fails a validation gate, maybe_ai_polish_script returns the deterministic
\* draft with hook, body and cta unchanged.
C18_FailedPolishReturnsDraft ==
    ( /\ ai.done /\ ai.setting = "on"
      /\ (ai.response.raised \/ FailsAGate(ai)) )
    => ai.out = ai.script

----------------------------------------------------------------------------
(* make_atom.py atomic_write_json and upload_youtube.py save_registry: two *)
(* invocations write the same file, and a reader reads it.  Both helpers  *)
(* open path + ".tmp" for writing, write, close and rename onto path.      *)

\* The write calls by which a file's content reaches the disk.
Chunks == 2

\* The invocations that write the file, each with its own content.
Writers == {"w1", "w2"}

\* The inodes a run can need: the file's, and one per creation of the tmp.
Inodes == 1..3

\* The complete content an invocation writes, and the content the file has
\* at the start.
content_of(w) == [i \in 1..Chunks |-> w]
OldContent == [i \in 1..Chunks |-> "old"]

\* open(tmp, "w") (make_atom.py line 47, Path.write_text at
\* upload_youtube.py line 60): the name tmp is created when absent, and the
\* file it names is truncated when present, whoever else has it open.
open_tmp(d) ==
    IF d.tmp = 0
    THEN [d EXCEPT !.tmp = d.next, !.next = d.next + 1,
                   !.content[d.next] = <<>>]
    ELSE [d EXCEPT !.content[d.tmp] = <<>>]

\* A write of the chunk at the writer's own file position; a position
\* beyond the end leaves a hole of zero bytes.
write_chunk(c, pos, w) ==
    LET padded == c \o [i \in 1..(pos - Len(c)) |-> "zeros"]
    IN  IF Len(padded) > pos THEN [padded EXCEPT ![pos + 1] = w]
        ELSE Append(padded, w)

\* os.replace(tmp, path), make_atom.py line 50 and upload_youtube.py
\* line 61: the name path gets the file the name tmp has now, in one step.
replace(d) == [d EXCEPT !.path = d.tmp, !.tmp = 0]

\* atomic_write_json line 47: the writer opens the tmp file.
Open(w) ==
    /\ writers[w].pc = "start"
    /\ \E d \in {open_tmp(disk)} :
          /\ disk' = d
          /\ writers' = [writers EXCEPT ![w] =
                           [pc |-> "open", fd |-> d.tmp, pos |-> 0]]
    /\ last' = [Idle EXCEPT !.op = "open"]
    /\ UNCHANGED <<validated, registry, uploads, approvals, channel,
                   incoming, failed, srd, history, made, contracts,
                   ai, observed, draws, laterVars>>

\* atomic_write_json lines 48-49: one write of the buffered content to the
\* file the writer has open; after the last one the file is closed.
Write(w) ==
    /\ writers[w].pc = "open"
    /\ disk' = [disk EXCEPT !.content[writers[w].fd] =
                   write_chunk(@, writers[w].pos, w)]
    /\ writers' = [writers EXCEPT
                     ![w].pos = @ + 1,
                     ![w].pc = IF writers[w].pos + 1 = Chunks THEN "closed"
                               ELSE "open"]
    /\ last' = [Idle EXCEPT !.op = "write"]
    /\ UNCHANGED <<validated, registry, uploads, approvals, channel,
                   incoming, failed, srd, history, made, contracts,
                   ai, observed, draws, laterVars>>

\* atomic_write_json line 50: the rename; FileNotFoundError when the name
\* tmp is gone.
Replace(w) ==
    /\ writers[w].pc = "closed"
    /\ IF disk.tmp = 0
       THEN /\ writers' = [writers EXCEPT ![w].pc = "raised"]
            /\ disk' = disk
       ELSE /\ writers' = [writers EXCEPT ![w].pc = "done"]
            /\ disk' = replace(disk)
    /\ last' = [Idle EXCEPT !.op = "replace"]
    /\ UNCHANGED <<validated, registry, uploads, approvals, channel,
                   incoming, failed, srd, history, made, contracts,
                   ai, observed, draws, laterVars>>

\* A reader (load_json, load_registry) reads the file at path.
Read ==
    /\ disk.path # 0
    /\ observed' = disk.content[disk.path]
    /\ observed' # observed
    /\ last' = [Idle EXCEPT !.op = "read"]
    /\ UNCHANGED <<validated, registry, uploads, approvals, channel,
                   incoming, failed, srd, history, made, contracts,
                   ai, disk, writers, draws, laterVars>>

InitWrite ==
    /\ validated = [d \in Days |-> NoAtom]
    /\ registry = <<>>
    /\ uploads = <<>>
    /\ last = Idle
    /\ approvals = [d \in Days |-> NoApproval]
    /\ channel = <<>>
    /\ FilesIdle
    /\ contracts = <<>>
    /\ LaterIdle
    /\ ai = <<>>
    /\ draws = <<>>
    /\ disk = [path |-> 1, tmp |-> 0, next |-> 2,
               content |-> [n \in Inodes |->
                              IF n = 1 THEN OldContent ELSE <<>>]]
    /\ writers = [w \in Writers |-> [pc |-> "start", fd |-> 0, pos |-> 0]]
    /\ observed = OldContent

NextWrite ==
    \/ \E w \in Writers : Open(w)
    \/ \E w \in Writers : Write(w)
    \/ \E w \in Writers : Replace(w)
    \/ Read

SpecWrite == InitWrite /\ [][NextWrite]_vars

\* C19: what a reader of the file observes is never a partially written
\* file: it is the old content or the whole content of one writer, also
\* when two invocations write the file at the same time.
C19_NoPartialFileObserved ==
    observed \in {OldContent} \cup { content_of(w) : w \in Writers }

----------------------------------------------------------------------------
(* pick_creature.py and pick_spell.py over a dataset file whose records    *)
(* come in any order.                                                      *)

\* The orders in which a dataset file can hold the same records.
Reorderings(records) ==
    { [i \in 1..Len(records) |-> records[p[i]]] :
        p \in Permutations(1..Len(records)) }

\* A picker run that has not been made yet, with the day and category of
\* its atom and the records of its dataset file.
PickCalls ==
    { [day |-> d, category |-> c, records |-> rs, done |-> FALSE,
       drawn |-> 0] :
        d \in Days, c \in {monster_tactic}, rs \in Reorderings(Creatures) }
    \cup
    { [day |-> d, category |-> c, records |-> rs, done |-> FALSE,
       drawn |-> 0] :
        d \in Days, c \in {spell_use_case}, rs \in Reorderings(Spells) }

\* The files of a picker run: the day's atom as make_atom leaves it at
\* line 276 and the dataset with the call's records.
pick_files(call) ==
    [incoming |-> [d \in Days |->
                     IF d = call.day
                     THEN [new_atom(d, 1) EXCEPT
                             !.category = call.category,
                             !.angle = how_it_wins]
                     ELSE NoFile],
     srd |-> IF call.category = monster_tactic
             THEN [Dataset EXCEPT !.creature.records = call.records]
             ELSE [Dataset EXCEPT !.spell.records = call.records],
     history |-> [d \in Days |-> [c \in Categories |-> NoHistory]]]

\* make_atom.py main, lines 282-286: the legacy picker of the category is
\* run for the day.
Draw(slot) ==
    /\ ~draws[slot].done
    /\ \E result \in
          { IF draws[slot].category = spell_use_case
            THEN pick_spell(pick_files(draws[slot]), draws[slot].day)
            ELSE pick_creature(pick_files(draws[slot]), draws[slot].day) } :
          draws' = [draws EXCEPT ![slot].done = TRUE,
                                 ![slot].drawn = result.drawn]
    /\ last' = [Idle EXCEPT !.op = "pick", !.day = draws[slot].day]
    /\ UNCHANGED <<validated, registry, uploads, approvals, channel,
                   incoming, failed, srd, history, made, contracts,
                   ai, disk, writers, observed, laterVars>>

InitPick ==
    /\ validated = [d \in Days |-> NoAtom]
    /\ registry = <<>>
    /\ uploads = <<>>
    /\ last = Idle
    /\ approvals = [d \in Days |-> NoApproval]
    /\ channel = <<>>
    /\ FilesIdle
    /\ contracts = <<>>
    /\ LaterIdle
    /\ ai = <<>>
    /\ disk = <<>>
    /\ writers = <<>>
    /\ observed = <<>>
    /\ draws \in [{"a", "b"} -> PickCalls]

NextPick == \E slot \in {"a", "b"} : Draw(slot)

SpecPick == InitPick /\ [][NextPick]_vars

\* The primary keys of the records.
PkSet(records) == { records[i].pk : i \in 1..Len(records) }

\* C20: pick_creature / pick_spell draw the same primary key for the same
\* day and category from two dataset files that hold the same set of
\* primary keys, whatever the order of their records.
C20_DrawIgnoresRecordOrder ==
    \A x, y \in DOMAIN draws :
        ( /\ draws[x].done /\ draws[y].done
          /\ draws[x].day = draws[y].day
          /\ draws[x].category = draws[y].category
          /\ PkSet(draws[x].records) = PkSet(draws[y].records) )
        => draws[x].drawn = draws[y].drawn

----------------------------------------------------------------------------
(* pick_style.py on its own: a category with two configured angles, one   *)
(* or two voices and two tones, a history of the preceding days, and a     *)
(* tone lookback of BIZZAL_TONE_VARIETY_LOOKBACK_DAYS days.  Days are       *)
(* counted from 1; the run is for the day after the longest lookback.      *)

\* The longest tone lookback of the model.
StyleLookback == 2

\* The day of the run, and the days the history file has entries for.
StyleDay == StyleLookback + 1
StyleDays == 1..StyleDay

moral_choice == <<"m","o","r","a","l","_","c","h","o","i","c","e">>

\* rules["angles"] of a category with more than one angle.
StyleAngles == <<how_it_wins, moral_choice>>

\* style_history.json: the entry of (day, category), none for another day.
hist_get(hist, day, category) ==
    IF day \in DOMAIN hist THEN hist[day][category] ELSE NoHistory

\* pick_style.py recent_tones_for_category, lines 47-62: day - i is the
\* date i days before day.
recent_tones_for_category(hist, category, day, lookback_days) ==
    IF lookback_days <= 0 THEN <<>>
    ELSE SelectSeq([i \in 1..lookback_days |->
                      strip(hist_get(hist, day - i, category).tone,
                            Whitespace)],
                   LAMBDA tone : tone # <<>>)

\* pick_style.py choose_avoid, lines 134-136, on the generator's output r.
choose_avoid(options, avoid_value, r) ==
    LET opts == SelectSeq(options, LAMBDA o : o # avoid_value)
    IN  IF opts # <<>> THEN random_choice(r, opts)
        ELSE random_choice(r, options)

\* pick_style.py choose_avoid_many, lines 138-141.
choose_avoid_many(options, avoid_values, r) ==
    LET avoided == { avoid_values[i] : i \in 1..Len(avoid_values) } \ {<<>>}
        opts == SelectSeq(options, LAMBDA o : o \notin avoided)
    IN  IF opts # <<>> THEN random_choice(r, opts)
        ELSE random_choice(r, options)

\* pick_style.py main, lines 127-195: the choice of angle, voice and tone
\* for the atom of the day and the history written back.  rnd holds the
\* successive outputs of the generator seeded at line 105; an angle the
\* atom already has is kept when the category configures it (lines
\* 143-147), and then no output is used for it.
pick_style_main(call) ==
    LET prev == hist_get(call.hist, call.day - 1, call.category)
        keep == \E i \in 1..Len(call.angles) :
                    call.angles[i] = call.atom_angle
        k == IF keep THEN 0 ELSE 1
        angle == IF keep THEN call.atom_angle
                 ELSE choose_avoid(call.angles, prev.angle, call.rnd[1])
        voice == choose_avoid(call.voices, prev.voice, call.rnd[k + 1])
        recent_tones == recent_tones_for_category(call.hist, call.category,
                                                  call.day, call.lookback)
        tone == choose_avoid_many(call.tones, recent_tones, call.rnd[k + 2])
    IN  [angle |-> angle, voice |-> voice, tone |-> tone,
         hist |-> [call.hist EXCEPT ![call.day][call.category] =
                     [present |-> TRUE, angle |-> angle, voice |-> voice,
                      tone |-> tone]]]

\* The history entries earlier runs of pick_style can have written.
StyleEntries ==
    {NoHistory} \cup
    { [present |-> TRUE, angle |-> StyleAngles[a], voice |-> Voices[v],
       tone |-> Tones[t]] : a \in 1..2, v \in 1..2, t \in 1..2 }

\* The history file before the run: entries of the days before the run for
\* the category of the run.
StyleHistories(category) ==
    { [d \in StyleDays |-> [c \in Categories |->
          IF c = category /\ d < StyleDay THEN h[d] ELSE NoHistory]] :
        h \in [1..StyleLookback -> StyleEntries] }

\* A pick_style run that has not been made yet: the atom's category and
\* angle (none, or the angle make_atom wrote at lines 266-271), the
\* configured options, the lookback, the generator and the history file.
StyleCalls(category) ==
    { [day |-> StyleDay, category |-> category, atom_angle |-> aa,
       angles |-> StyleAngles, voices |-> vs, tones |-> Tones,
       lookback |-> n, rnd |-> rnd, hist |-> h, done |-> FALSE,
       angle |-> <<>>, voice |-> <<>>, tone |-> <<>>, hist1 |-> h] :
        aa \in {<<>>, how_it_wins, moral_choice},
        vs \in {Voices, <<Voices[1]>>},
        n \in 0..StyleLookback,
        rnd \in [1..3 -> 0..1],
        h \in StyleHistories(category) }

\* One run of pick_style.py.
PickStyle ==
    /\ ~styles.done
    /\ \E result \in {pick_style_main(styles)} :
          styles' = [styles EXCEPT !.done = TRUE,
                                   !.angle = result.angle,
                                   !.voice = result.voice,
                                   !.tone = result.tone,
                                   !.hist1 = result.hist]
    /\ last' = [Idle EXCEPT !.op = "pick_style"]
    /\ UNCHANGED <<validated, registry, uploads, approvals, channel,
                   incoming, failed, srd, history, made, contracts,
                   ai, disk, writers, observed, draws, scripts, uploaders>>

InitStyle ==
    /\ validated = [d \in Days |-> NoAtom]
    /\ registry = <<>>
    /\ uploads = <<>>
    /\ last = Idle
    /\ approvals = [d \in Days |-> NoApproval]
    /\ channel = <<>>
    /\ FilesIdle
    /\ contracts = <<>>
    /\ ai = <<>>
    /\ disk = <<>>
    /\ writers = <<>>
    /\ observed = <<>>
    /\ draws = <<>>
    /\ scripts = <<>>
    /\ uploaders = <<>>
    /\ \E category \in {monster_tactic} : styles \in StyleCalls(category)

NextStyle == PickStyle

SpecStyle == InitStyle /\ [][NextStyle]_vars

\* The values of one dimension that the history records for the category
\* on the n days before the run.
StyleWindow(call, n, dim) ==
    { hist_get(call.hist, call.day - i, call.category)[dim] : i \in 1..n }
    \ {<<>>}

\* The choice of a dimension respects its lookback window: a value outside
\* the window when the options hold one, else any of the options.
StyleRespects(options, window, chosen) ==
    LET outside == { options[i] : i \in 1..Len(options) } \ window
    IN  IF outside # {} THEN chosen \in outside
        ELSE chosen \in { options[i] : i \in 1..Len(options) }

\* C21: for angle, voice and tone pick_style chooses a value that the
\* history does not record for the category in the lookback window (the
\* preceding day for angle and voice, the last N days for tone) whenever
\* the options hold such a value, draws from all options otherwise, and
\* stores the chosen values in the history under (day, category).
C21_StyleAvoidsLookback ==
    styles # <<>> /\ styles.done =>
        /\ StyleRespects(styles.angles, StyleWindow(styles, 1, "angle"),
                         styles.angle)
        /\ StyleRespects(styles.voices, StyleWindow(styles, 1, "voice"),
                         styles.voice)
        /\ StyleRespects(styles.tones,
                         StyleWindow(styles, styles.lookback, "tone"),
                         styles.tone)
        /\ styles.hist1[styles.day][styles.category] =
               [present |-> TRUE, angle |-> styles.angle,
                voice |-> styles.voice, tone |-> styles.tone]

----------------------------------------------------------------------------
(* write_script_from_fact.py main from the cleaned draft on (lines         *)
(* 1528-1548): the two AI polish steps, the encounter guards, script_id    *)
(* and the content contract.  Texts are sequences of words as in the AI    *)
(* polish above; a word contains the searched terms "fragments" gives.     *)

encounter_seed == <<"e","n","c","o","u","n","t","e","r","_","s","e","e","d">>
overworld_encounter ==
    <<"o","v","e","r","w","o","r","l","d","_","e","n","c","o","u","n","t","e","r">>
creature == <<"c","r","e","a","t","u","r","e">>
spell == <<"s","p","e","l","l">>

\* canonical_category, lines 67-79.
canonical_category(category) ==
    IF category = overworld_encounter THEN encounter_seed ELSE category

\* (angle or "").strip().lower(), lines 1374, 1402, 1438.
angle_key(angle) ==
    [i \in 1..Len(strip(angle, Whitespace)) |->
        lower_char(strip(angle, Whitespace)[i])]

\* str.lower() on a word of the texts.
lower_word(w) ==
    CASE w = "Terrain" -> "terrain"
      [] w = "Protect" -> "protect"
      [] OTHER -> w

\* The searched terms that occur inside a lowercase word.
fragments(w) ==
    CASE w = "losses" -> {"loss"}
      [] w = "costs"  -> {"cost"}
      [] w = "costly" -> {"cost"}
      [] OTHER -> {w}

\* any(tok in t for tok in toks) with t = text.strip().lower().
any_tok_in(toks, text) ==
    \E i \in 1..Len(text) : fragments(lower_word(text[i])) \cap toks # {}

\* should_force_encounter_hook, lines 1353-1380.
gear_leaks ==
    {"gear", "loadout", "equipment", "inventory", "shopping", "price tag",
     "kit"}
encounter_signals ==
    {"encounter", "scene", "stakes", "objective", "pressure", "clock",
     "choice", "cost"}
moral_signals == {"choice", "cost", "sacrifice", "values", "save", "protect"}

should_force_encounter_hook(hook, angle) ==
    LET t == strip(hook, Whitespace)
    IN  \/ t = <<>>
        \/ is_generic_hook(t)
        \/ any_tok_in(gear_leaks, t)
        \/ ~any_tok_in(encounter_signals, t)
        \/ /\ angle_key(angle) = moral_choice
           /\ ~any_tok_in(moral_signals, t)

\* build_encounter_hook, lines 1319-1351, for the angles of the model; pick
\* is the index deterministic_pick derives from its seed key.
build_encounter_hook(angle, name, pick) ==
    IF angle_key(angle) = moral_choice
    THEN << <<"Run", name, "as a moral-choice", "encounter",
              ": they can", "protect", "everyone, or finish the",
              "objective", "before the", "cost", "spikes", ".">>,
            <<"Use", name, "as a", "values",
              "test: give the table two wins, then make them choose", ".">>,
            <<"Open a", name, "scene", "with", "stakes",
              "on both sides, then force a", "choice", "that", "costs",
              "something either way", ".">> >>[pick]
    ELSE << <<"Use", name, "as an", "encounter", "seed with clear",
              "stakes", "and one hard decision", ".">>,
            <<"Open with", "stakes", ", then let", name, "pressure",
              "the table into a", "costly", "decision", ".">>,
            <<"Frame", name, "as a", "scene",
              "where priorities collide and every win has a price",
              ".">> >>[pick]

\* enforce_encounter_hook_guard, lines 1382-1394.
enforce_encounter_hook_guard(atom, fact, script, name, pick) ==
    IF canonical_category(atom.category) # encounter_seed
       \/ fact.kind # creature
    THEN script
    ELSE IF should_force_encounter_hook(script.hook, atom.angle)
    THEN [script EXCEPT !.hook =
            clean_script_text(build_encounter_hook(atom.angle, name, pick))]
    ELSE script

\* build_encounter_cta, lines 1396-1434, for the angles of the model.
build_encounter_cta(angle, pick) ==
    IF angle_key(angle) = moral_choice
    THEN << <<"DMs:", "by round 2, force a hard", "choice", "protect",
              "people now or secure the", "objective", "before", "losses",
              "escalate", ".">>,
            <<"DMs:", "make them choose what they can live with:", "save",
              "everyone at higher risk, or end the threat", ".">>,
            <<"DMs:", "write two good outcomes and require one",
              "sacrifice", "; this", "scene",
              "should not allow a clean, total win", ".">> >>[pick]
    ELSE << <<"DMs:", "telegraph", "stakes", "early, then force one",
              "costly", "decision before round 3", ".">>,
            <<"DMs:", "show consequence first and make commitment expensive",
              ".">>,
            <<"DMs:", "set clear", "stakes", "and make delay hurt quickly",
              ".">> >>[pick]

terrain_leaks ==
    {"terrain", "map feature", "control point", "chokepoint",
     "hazardous terrain"}
required_tradeoff ==
    {"objective", "protect", "save", "sacrifice", "cost", "loss"}

\* A check of the CTA that does not look for the terrain terms.
should_force_encounter_cta_without_leaks(cta, angle) ==
    LET t == strip(cta, Whitespace)
    IN  \/ t = <<>>
        \/ is_generic_cta(t)
        \/ /\ angle_key(angle) = moral_choice
           /\ ~any_tok_in(required_tradeoff, t)

\* should_force_encounter_cta, lines 1436-1454.
should_force_encounter_cta(cta, angle) ==
    LET t == strip(cta, Whitespace)
    IN  \/ t = <<>>
        \/ is_generic_cta(t)
        \/ /\ angle_key(angle) = moral_choice
           /\ \/ any_tok_in(terrain_leaks, t)
              \/ ~any_tok_in(required_tradeoff, t)

\* enforce_encounter_cta_guard, lines 1456-1469.
enforce_encounter_cta_guard(atom, fact, script, pick) ==
    IF canonical_category(atom.category) # encounter_seed
       \/ fact.kind # creature
    THEN script
    ELSE IF should_force_encounter_cta(script.cta, atom.angle)
    THEN [script EXCEPT !.cta =
            clean_script_text(build_encounter_cta(atom.angle, pick))]
    ELSE script

\* The speaker prefixes a CTA can start with (regex of lines 413, 486).
CtaPrefixes == {"DMs:", "Players:"}

\* maybe_ai_polish_cta, lines 378-504, with no PDF flavor snippet found and
\* none required.  setting is "on" when BIZZAL_ENABLE_AI is set and an API
\* key is configured; response is what the call gives (raised, or a text).
maybe_ai_polish_cta(script, setting, response) ==
    LET current_cta == strip(script.cta, Whitespace)
        prefix == IF current_cta # <<>> /\ current_cta[1] \in CtaPrefixes
                  THEN current_cta[1] ELSE "DMs:"
        cleaned == clean_ai_style_text(strip(response.text, Whitespace),
                                       "cta")
        candidate == IF cleaned # <<>> /\ cleaned[1] \notin CtaPrefixes
                     THEN <<prefix>> \o cleaned ELSE cleaned
    IN  IF current_cta = <<>> THEN current_cta
        ELSE IF setting # "on" THEN current_cta
        ELSE IF response.raised THEN current_cta
        ELSE IF cleaned = <<>> THEN current_cta
        ELSE IF Len(candidate) < 5 THEN current_cta
        ELSE candidate

\* The atom a writer run loads: the day's atom with category, angle, style
\* and the fact attach_fact wrote.
script_atom(call) ==
    [new_atom(DaySeq[1], 1) EXCEPT
        !.category = call.category, !.angle = call.angle,
        !.style = [voice |-> Voices[1], tone |-> Tones[1]],
        !.picks = [creature_pk |-> 7, spell_pk |-> 0],
        !.fact = [kind |-> call.kind, pk |-> 7, name |-> <<"G","o","b">>,
                  document |-> <<>>]]

\* A writer that hashes the script before the encounter guards run.
write_script_main_hash_before_guards(call) ==
    LET atom == script_atom(call)
        fact == atom.fact
        supported ==
            \/ canonical_category(atom.category) = monster_tactic
               /\ fact.kind = creature
            \/ canonical_category(atom.category) = encounter_seed
               /\ fact.kind = creature
        s1 == maybe_ai_polish_script(call.draft, "Gob", call.script_ai,
                                     FALSE, <<>>, call.script_response)
        s2 == [s1 EXCEPT !.cta = clean_script_text(
                  maybe_ai_polish_cta(s1, call.cta_ai, call.cta_response))]
        s3 == enforce_encounter_hook_guard(atom, fact, s2, "Gob",
                                           call.hook_pick)
        s4 == enforce_encounter_cta_guard(atom, fact, s3, call.cta_pick)
        script_id == sha256_text(packed(s2))
    IN  IF ~supported THEN [rc |-> 4, atom |-> atom]
        ELSE [rc |-> 0,
              atom |-> [atom EXCEPT
                  !.script = s4,
                  !.script_id = script_id,
                  !.content = build_content_contract(atom, script_id, s4,
                                  fact, atom.style, DaySeq[1])]]

\* write_script_from_fact.py main, lines 1471-1548, from the cleaned draft
\* of line 1529 on: rc 4 for a category/kind pair it does not support,
\* else the atom it writes.
write_script_main(call) ==
    LET atom == script_atom(call)
        fact == atom.fact
        supported ==
            \/ canonical_category(atom.category) = monster_tactic
               /\ fact.kind = creature
            \/ canonical_category(atom.category) = encounter_seed
               /\ fact.kind = creature
        s1 == maybe_ai_polish_script(call.draft, "Gob", call.script_ai,
                                     FALSE, <<>>, call.script_response)
        s2 == [s1 EXCEPT !.cta = clean_script_text(
                  maybe_ai_polish_cta(s1, call.cta_ai, call.cta_response))]
        s3 == enforce_encounter_hook_guard(atom, fact, s2, "Gob",
                                           call.hook_pick)
        s4 == enforce_encounter_cta_guard(atom, fact, s3, call.cta_pick)
        script_id == sha256_text(packed(s4))
    IN  IF ~supported THEN [rc |-> 4, atom |-> atom]
        ELSE [rc |-> 0,
              atom |-> [atom EXCEPT
                  !.script = s4,
                  !.script_id = script_id,
                  !.content = build_content_contract(atom, script_id, s4,
                                  fact, atom.style, DaySeq[1])]]

\* The cleaned deterministic drafts of an encounter about Gob.
EncounterDrafts ==
    { [hook |-> <<"Gob", "blocks", "the", "bridge", ".">>,
       body |-> <<"Gob", "has", "7", "hp", ".">>,
       cta  |-> c] :
        c \in { <<"DMs:", "run", "Gob", "tonight", ".">>,
                <<"DMs:", "let", "Gob", "name", "the", "cost", ".">> } }

\* What the script polish can return.
ScriptResponses ==
    { [raised |-> TRUE, hook |-> <<>>, body |-> <<>>, cta |-> <<>>],
      [raised |-> FALSE,
       hook |-> <<"Gob", "forces", "a", "choice", ".">>,
       body |-> <<"Gob", "keeps", "7", "hp", ".">>,
       cta  |-> <<"DMs:", "hold", "the", "chokepoint", "or", "save",
                  "them", ".">>],
      [raised |-> FALSE,
       hook |-> <<"Gob", "wants", "your", "gear", ".">>,
       body |-> <<"Gob", "keeps", "7", "hp", ".">>,
       cta  |-> <<"DMs:", "hit", "hard", "with", "Gob", ".">>] }

\* What the CTA polish can return.
CtaResponses ==
    { [raised |-> TRUE, text |-> <<>>] } \cup
    { [raised |-> FALSE, text |-> t] :
        t \in { <<>>,
                <<"DMs:", "use", "the", "Terrain", "at", "any", "cost", ".">>,
                <<"Protect", "the", "villagers", "first", ".">>,
                <<"DMs:", "strike", "fast", "and", "hard", ".">>,
                <<"weigh their choices", "and", "save", "them", " ">> } }

\* A writer run that has not been made yet.
ScriptCalls ==
    { [category |-> c, angle |-> a, kind |-> k, draft |-> d,
       script_ai |-> g, script_response |-> r, cta_ai |-> h,
       cta_response |-> q, hook_pick |-> i, cta_pick |-> j,
       done |-> FALSE, rc |-> 0, atom |-> NoFile] :
        c \in {encounter_seed, overworld_encounter, monster_tactic},
        a \in {moral_choice, how_it_wins}, k \in {creature, spell},
        d \in EncounterDrafts, g \in {"off", "on"}, r \in ScriptResponses,
        h \in {"off", "on"}, q \in CtaResponses,
        i \in {1, 3}, j \in 1..3 }

\* One run of write_script_from_fact.py.
WriteScript ==
    /\ ~scripts.done
    /\ \E result \in {write_script_main(scripts)} :
          scripts' = [scripts EXCEPT !.done = TRUE, !.rc = result.rc,
                                     !.atom = result.atom]
    /\ last' = [Idle EXCEPT !.op = "write_script"]
    /\ UNCHANGED <<validated, registry, uploads, approvals, channel,
                   incoming, failed, srd, history, made, contracts,
                   ai, disk, writers, observed, draws, styles, uploaders>>

InitScript ==
    /\ validated = [d \in Days |-> NoAtom]
    /\ registry = <<>>
    /\ uploads = <<>>
    /\ last = Idle
    /\ approvals = [d \in Days |-> NoApproval]
    /\ channel = <<>>
    /\ FilesIdle
    /\ contracts = <<>>
    /\ ai = <<>>
    /\ disk = <<>>
    /\ writers = <<>>
    /\ observed = <<>>
    /\ draws = <<>>
    /\ styles = <<>>
    /\ uploaders = <<>>
    /\ scripts \in ScriptCalls

NextScript == WriteScript

SpecScript == InitScript /\ [][NextScript]_vars

\* The run completed for a moral-choice encounter about a creature.
MoralEncounterWritten ==
    /\ scripts # <<>>
    /\ scripts.done
    /\ scripts.rc = 0
    /\ canonical_category(scripts.category) = encounter_seed
    /\ scripts.angle = moral_choice
    /\ scripts.kind = creature

\* C22: after write_script_from_fact completes for an atom whose canonical
\* category is encounter_seed, whose angle is moral_choice and whose fact
\* is a creature, the stored CTA contains none of the forbidden terrain
\* terms and at least one of the required tradeoff terms, whatever the AI
\* polish steps returned.
C22_MoralCtaGuarded ==
    MoralEncounterWritten =>
        /\ ~any_tok_in(terrain_leaks, scripts.atom.script.cta)
        /\ any_tok_in(required_tradeoff, scripts.atom.script.cta)

\* C22 witness: the CTA polish returned a text with a terrain term and a
\* tradeoff term, and the stored CTA is the guard's template.
C22_Witness ==
    /\ MoralEncounterWritten
    /\ scripts.cta_ai = "on"
    /\ ~scripts.cta_response.raised
    /\ any_tok_in(terrain_leaks, scripts.cta_response.text)
    /\ any_tok_in(required_tradeoff, scripts.cta_response.text)
    /\ scripts.atom.script.cta =
           build_encounter_cta(moral_choice, scripts.cta_pick)

\* C29: every atom written by a successful write_script_from_fact run has
\* script_id equal to the hash of its final stored hook, body and cta (the
\* text after the AI polish and the encounter guards) and content.script_id
\* equal to script_id, so minimal_validate does not fail its script_id
\* integrity checks on it.
C29_WriterScriptIdMatches ==
    (scripts # <<>> /\ scripts.done /\ scripts.rc = 0) =>
        /\ scripts.atom.script_id = sha256_text(packed(scripts.atom.script))
        /\ scripts.atom.content.script_id = scripts.atom.script_id
        /\ minimal_validate(scripts.atom).msg \notin
               {"script_id does not match script content",
                "content.script_id does not match script_id"}

\* C29 witness: the script polish rewrote the script and an encounter guard
\* then replaced its hook and its CTA.
C29_Witness ==
    /\ scripts # <<>> /\ scripts.done /\ scripts.rc = 0
    /\ scripts.script_ai = "on"
    /\ ~scripts.script_response.raised
    /\ scripts.atom.script.body = scripts.script_response.body
    /\ scripts.atom.script.hook \notin
           {scripts.draft.hook, scripts.script_response.hook}
    /\ scripts.atom.script.cta =
           build_encounter_cta(scripts.angle, scripts.cta_pick)
    /\ minimal_validate(scripts.atom).ok

----------------------------------------------------------------------------
(* Further claims about the publish gate.                                  *)

\* C23: whenever a check run runs the publish command for a day after an
\* approve command, the content_id of the validated atom of that day, which
\* the publish command uploads, is the content_id of the approval record
\* that was approved, also when make_atom was re-run for the day between
\* the request and the approval.
C23_PublishedAtomIsApprovedAtom ==
    [][ \A d \in Days :
          PublishRunFor(d)
          => validated[d].content_id = approvals[d].content_id ]_vars

\* The day a request that has just stored a record was made for
\* (request_mode, lines 205-213: the requested day, or the latest validated
\* day when the requested one has no atom).
RequestedDay ==
    IF validated[last.day].present THEN last.day
    ELSE latest_validated_day(validated)

\* A request has just stored a pending record: every message in the
\* channel was posted before that request was sent.
JustRequested ==
    /\ last.op = "request" /\ last.called /\ last.rc = 0
    /\ RequestedDay \in Days

\* C24: a pending record is decided only by a command posted after its
\* request was sent; so a check run that directly follows the request, with
\* only older messages in the channel (from an earlier approval cycle for
\* the same day or content_id), leaves the record pending.
C24_OldCommandsDoNotDecide ==
    [][ (JustRequested /\ last'.op = "check")
        => approvals'[RequestedDay] = approvals[RequestedDay] ]_vars

\* The records that are pending when a check run starts.
PendingAtStart == {d \in Days : StatusOf(approvals, d) = "pending"}

\* The i-th message read is a command that matches the pending day: its
\* author passes the allow-list of the run, it is an approve or reject
\* command, and it names the day or its content_id, or names nothing while
\* exactly one record is pending (stated on the words, not through the
\* parser).
MatchesDay(i, d, approve_users) ==
    LET msg == channel[i]
    IN  /\ approve_users = {} \/ msg.author \in approve_users
        /\ Len(msg.words) >= 1
        /\ lower(msg.words[1]) \in
              {"approve", "approved", "reject", "rejected"}
        /\ IF Len(msg.words) >= 2
           THEN lower(msg.words[2]) \in {d, approvals[d].content_id}
           ELSE Cardinality(PendingAtStart) = 1

\* The first message, in the order read, that matches the day (0: none).
FirstMatch(d, approve_users) ==
    LET hits == { i \in 1..Len(channel) : MatchesDay(i, d, approve_users) }
    IN  IF hits = {} THEN 0
        ELSE CHOOSE i \in hits : \A j \in hits : i <= j

\* C28: within one check run each pending day gets at most one decision,
\* that of the first matching approve/reject command in the order the
\* channel read returns the messages; later matching commands have no
\* effect on the day, and a command without an argument takes effect only
\* when exactly one record is pending.
C28_FirstCommandDecides ==
    [][ (last'.op = "check" /\ last'.io = "ok")
        => \A d \in PendingAtStart :
             LET i == FirstMatch(d, last'.users)
             IN  IF i = 0 THEN approvals'[d] = approvals[d]
                 ELSE /\ approvals'[d].decision_by = channel[i].author
                      /\ IF lower(channel[i].words[1]) \in
                               {"reject", "rejected"}
                         THEN StatusOf(approvals', d) = "rejected"
                         ELSE StatusOf(approvals', d) \in
                                 {"approved", "published",
                                  "approved_publish_failed"} ]_vars

\* C28 witness: a check run has read an approve and then a reject command
\* of two authors for the same pending day and has approved it for the
\* author of the first.
C28_Witness ==
    /\ last.op = "check" /\ last.io = "ok" /\ last.users = {}
    /\ Len(channel) = 2
    /\ channel[1] = [author |-> "u1", words |-> <<"approve", DaySeq[1]>>]
    /\ channel[2] = [author |-> "u2", words |-> <<"Rejected", "BGP-C1">>]
    /\ approvals[DaySeq[1]].content_id = "bgp-c1"
    /\ approvals[DaySeq[1]].decision_by = "u1"
    /\ StatusOf(approvals, DaySeq[1]) = "approved"

\* A check --publish run that reads the channel.
CheckPublish ==
    \E approve_users \in SUBSET Users :
       \E rcs \in PublishResults(TRUE) :
          Check("ok", approve_users, TRUE, rcs, "ok")

\* The gate when check --publish keeps being run.
SpecGateLive == InitGate /\ [][NextGate]_vars /\ WF_vars(CheckPublish)

\* C25: every record that reaches status approved eventually reaches
\* published or approved_publish_failed when check --publish keeps being
\* run: a record approved by a check run without --publish is published by
\* a later check run with --publish.
C25_ApprovedEventuallyPublished ==
    \A d \in Days :
        (StatusOf(approvals, d) = "approved")
        ~> (StatusOf(approvals, d) \in
               {"published", "approved_publish_failed"})

----------------------------------------------------------------------------
(* upload_youtube.py: two invocations for the same day and video that run  *)
(* at the same time under default configuration.  Each invocation reads    *)
(* the registry file into its own dictionary (line 271), calls the upload  *)
(* API (line 298) and then writes its dictionary back (line 323).          *)

Uploaders == {"p1", "p2"}

\* The day and the validated atom the two invocations are run for.
RaceDay == DaySeq[1]
RaceAtoms == { a \in UAtoms : a.content_id # "" }

\* A registry record of an earlier publish of another day.
OtherRecord ==
    [day |-> DaySeq[2], content_id |-> "bgp-c9",
     publish_hash |-> [day |-> DaySeq[2], content_id |-> "bgp-c9",
                       script_id |-> "s9", video |-> "v1.mp4"],
     youtube_video_id |-> 9]

\* An invocation that has not started: pc is its position in main, items
\* the registry it has loaded, vid the video id the API gave it.
NotStarted(video) ==
    [pc |-> "start", video |-> video, items |-> <<>>, vid |-> 0, rc |-> -1]

\* main, lines 256-283: the atom and the registry are read and the
\* duplicate guard is applied to the registry as read.
LoadRegistry(p) ==
    /\ uploaders[p].pc = "start"
    /\ LET atom == load_atom(validated, RaceDay)
           publish_hash ==
               build_publish_fingerprint(atom, RaceDay, uploaders[p].video)
           prior == duplicate_publish(registry, publish_hash,
                                      atom.content_id)
       IN  uploaders' = [uploaders EXCEPT ![p] =
               IF prior # 0
               THEN [@ EXCEPT !.pc = "done", !.rc = 6, !.items = registry]
               ELSE [@ EXCEPT !.pc = "upload", !.items = registry]]
    /\ last' = [Idle EXCEPT !.op = "upload", !.day = RaceDay]
    /\ UNCHANGED <<validated, registry, uploads, approvals, channel,
                   incoming, failed, srd, history, made, contracts,
                   ai, disk, writers, observed, draws, styles, scripts>>

\* main, lines 296-305: the upload API call and its answer.
UploadVideo(p, outcome) ==
    /\ uploaders[p].pc = "upload"
    /\ LET vid == IF outcome = "ok" THEN Len(uploads) + 1 ELSE 0
           rec == [day |-> RaceDay,
                   content_id |-> load_atom(validated, RaceDay).content_id,
                   allow_duplicate |-> FALSE, youtube_video_id |-> vid]
       IN  /\ uploads' = IF outcome = "error" THEN uploads
                         ELSE Append(uploads, rec)
           /\ uploaders' = [uploaders EXCEPT ![p] =
                  IF outcome = "error"
                  THEN [@ EXCEPT !.pc = "done", !.rc = 4]
                  ELSE IF vid = 0 THEN [@ EXCEPT !.pc = "done", !.rc = 5]
                  ELSE [@ EXCEPT !.pc = "save", !.vid = vid]]
    /\ last' = [Idle EXCEPT !.op = "upload", !.day = RaceDay,
                            !.io = outcome, !.called = TRUE]
    /\ UNCHANGED <<validated, registry, approvals, channel,
                   incoming, failed, srd, history, made, contracts,
                   ai, disk, writers, observed, draws, styles, scripts>>

\* main, lines 310-325: the record is appended to the registry as this
\* invocation read it, and that registry is written to the file.
SaveRegistry(p) ==
    /\ uploaders[p].pc = "save"
    /\ LET atom == load_atom(validated, RaceDay)
       IN  registry' = registry_append(uploaders[p].items,
               [day |-> RaceDay, content_id |-> atom.content_id,
                publish_hash |->
                    build_publish_fingerprint(atom, RaceDay,
                                              uploaders[p].video),
                youtube_video_id |-> uploaders[p].vid])
    /\ uploaders' = [uploaders EXCEPT ![p].pc = "done", ![p].rc = 0]
    /\ last' = [Idle EXCEPT !.op = "upload", !.day = RaceDay,
                            !.called = TRUE]
    /\ UNCHANGED <<validated, uploads, approvals, channel,
                   incoming, failed, srd, history, made, contracts,
                   ai, disk, writers, observed, draws, styles, scripts>>

InitRace ==
    /\ validated \in { [d \in Days |-> IF d = RaceDay THEN a ELSE NoAtom] :
                          a \in RaceAtoms }
    /\ registry \in { <<>>, <<OtherRecord>> }
    /\ uploads = <<>>
    /\ last = Idle
    /\ approvals = [d \in Days |-> NoApproval]
    /\ channel = <<>>
    /\ FilesIdle
    /\ contracts = <<>>
    /\ ai = <<>>
    /\ disk = <<>>
    /\ writers = <<>>
    /\ observed = <<>>
    /\ draws = <<>>
    /\ styles = <<>>
    /\ scripts = <<>>
    /\ uploaders \in { [p \in Uploaders |-> NotStarted(v)] : v \in Videos }

NextRace ==
    \E p \in Uploaders :
        \/ LoadRegistry(p)
        \/ \E outcome \in UploadOutcomes : UploadVideo(p, outcome)
        \/ SaveRegistry(p)

SpecRace == InitRace /\ [][NextRace]_vars

\* The registry records of a content_id.
RecordsOf(content_id) ==
    { i \in 1..Len(registry) : registry[i].content_id = content_id }

\* C26: when two upload_youtube invocations for the same validated atom and
\* video run concurrently under default configuration, at most one of them
\* performs an upload, and once both have ended after a successful upload
\* the registry holds exactly one record for that content_id.
C26_ConcurrentUploadsGuarded ==
    uploaders # <<>> =>
        /\ Len(uploads) <= 1
        /\ ( /\ \A p \in Uploaders : uploaders[p].pc = "done"
             /\ \E p \in Uploaders : uploaders[p].rc = 0 )
           => Cardinality(RecordsOf(validated[RaceDay].content_id)) = 1

----------------------------------------------------------------------------
(* Further claims about make_atom.                                         *)

\* The directories that hold the day's atom file.
DirectoriesOf(d) ==
    (IF incoming[d].present THEN {"incoming"} ELSE {})
    \cup (IF validated[d].present THEN {"validated"} ELSE {})
    \cup (IF failed[d].present THEN {"failed"} ELSE {})

\* C27: after any sequence of make_atom runs for a day (successful, failed
\* in validation, or aborted in a stage) the day's atom file exists in at
\* most one of the directories incoming/, validated/ and failed/.
C27_AtomInOneDirectory ==
    \A d \in Days : Cardinality(DirectoriesOf(d)) <= 1

----------------------------------------------------------------------------
(* monthly_export_manifest.py: the content identity derived for an atom    *)
(* without a content contract.                                             *)

\* derive_content_fallback, lines 78-117; now is the date datetime.now()
\* gives while it runs.  The digests stand for their input strings: the
\* canonical hash is taken of day|category|kind|fact_pk|script_id, the
\* voice and visual ids of content_id|key|voice and content_id|key|visual.
derive_content_fallback(atom, now) ==
    LET day      == IF atom.day # "" THEN day_text(atom.day) ELSE day_text(now)
        month_id == SubSeq(day, 1, 7)
        category == slugify(atom.category)
        angle    == slugify(atom.angle)
        fact     == atom.fact
        style    == atom.style
        kind     == slugify(IF fact.kind # <<>> THEN fact.kind
                            ELSE <<"u","n","k","n","o","w","n">>)
        fact_pk  == slugify(IF fact.pk # 0 THEN str_pk(fact.pk)
                            ELSE IF fact.name # <<>> THEN fact.name
                            ELSE <<"u","n","k","n","o","w","n">>)
        script_id == IF atom.script_id # NoHash THEN atom.script_id
                     ELSE sha256_text(day \o <<"|">> \o category
                                          \o <<"|">> \o fact_pk)
        canonical == sha256_text(<<day \o <<"|">> \o category \o <<"|">>
                                       \o kind \o <<"|">> \o fact_pk,
                                   "|", script_id>>)
        short_hash == hex_prefix(canonical, 12)
        content_id ==
            [base |-> <<"b","g","p","-">> \o day \o <<"-">> \o category
                          \o <<"-">> \o kind \o <<"-">> \o fact_pk,
             short |-> short_hash]
    IN  [content_id |-> content_id,
         episode_id |-> [base |-> <<"e","p","-">> \o day \o <<"-">>
                                      \o category,
                         short |-> short_hash],
         month_id |-> month_id,
         month_bundle_id |->
            [month |-> month_id,
             h |-> hex_prefix(sha256_text(month_id), 8)],
         script_id |-> script_id,
         segments |->
            [key \in {"hook", "body", "cta"} |->
               [segment_id |->
                   [seg |-> key,
                    h |-> hex_prefix(sha256_text(<<content_id, "|", key>>),
                                     10)],
                voice_track_id |->
                   hex_prefix(sha256_text(<<content_id, "|", key,
                                            "|voice">>), 10),
                visual_asset_id |->
                   hex_prefix(sha256_text(<<content_id, "|", key,
                                            "|visual">>), 10)]],
         tags |-> {month_id, category, angle, kind,
                   slugify(IF style.voice # <<>> THEN style.voice
                           ELSE <<"f","r","i","e","n","d","l","y","-",
                                  "v","e","t">>),
                   <<"c","o","n","t","e","n","t","_","p","r","e","s","s">>,
                   <<"s","h","o","r","t","s">>}]

\* The atom a build_content_contract call was made for, as the writer
\* stores it, without its content contract.
ContractAtomOf(call) ==
    [day |-> call.atom.day, category |-> call.atom.category,
     angle |-> call.atom.angle, fact |-> call.fact,
     style |-> ContractStyle(call.atom),
     script_id |-> call.content.script_id]

\* C30: for any atom derive_content_fallback yields the content_id,
\* episode_id and per-segment segment_id, voice_track_id and
\* visual_asset_id that build_content_contract computes for it.
C30_FallbackMatchesContract ==
    \A slot \in DOMAIN contracts :
        contracts[slot].content.present =>
            LET c  == contracts[slot].content
                fb == derive_content_fallback(
                          ContractAtomOf(contracts[slot]),
                          contracts[slot].now)
            IN  /\ fb.content_id = c.content_id
                /\ fb.episode_id = c.episode_id
                /\ \A k \in {"hook", "body", "cta"} :
                      /\ fb.segments[k].segment_id = c.segments[k].segment_id
                      /\ fb.segments[k].voice_track_id =
                            c.segments[k].voice_track_id
                      /\ fb.segments[k].visual_asset_id =
                            c.segments[k].visual_asset_id

====
